---------------------------- MODULE Spec2Model ----------------------------
(***************************************************************************)
(* A model of sensory_data_client: the content-addressed file store        *)
(* (DataClient.upload_file / delete_file over MetaDataRepository,          *)
(* ObjectRepository and MinioRepository), the line store (LineRepository,  *)
(* AudioRepository, the raw_lines trigger), the image job queue            *)
(* (ImageRepository) and the autotag queue (AutotagRepository).            *)
(*                                                                         *)
(* Every await of the Python code that reaches PostgreSQL or MinIO is one  *)
(* atomic step; the steps of concurrent calls interleave.  A database      *)
(* session is the scope `async with get_session(...)` opens: statements of *)
(* one session that are followed by a single commit become visible         *)
(* together, at the commit (READ COMMITTED).                               *)
(***************************************************************************)
EXTENDS Integers, Sequences, FiniteSets, TLC

(* ------------------------------ bounds -------------------------------- *)
\* upload_file / delete_file calls started in one behaviour; each upload_file
\* mints one uuid4() for its document
MaxCalls == 3

\* file contents, by their sha256
Contents == {"hello", "world"}
\* (owner_id, user_document_id) pairs
Keys == {"u1", "u2"}
FileNames == {"a.txt", "b.mp3"}
DocIds == 1..MaxCalls
Procs == {1, 2}
SeqProcs == {1}
None == 0

VARIABLES
  stored_files,   \* table stored_files: rows [id, content_hash, object_path, extension]
  documents,      \* table documents: rows [id, stored_file_id, key, name, doc_type]
  blobs,          \* the MinIO bucket: objects [object_path, content]
  docparser_new_doc, \* pg_notify channel docparser_new_doc: the doc ids broadcast, in order
  procs,          \* per request handler: the call in flight and its locals
  history,        \* the last two completed calls, oldest first
  ncalls,         \* calls started so far
  nextDocId,      \* next uuid4() for a document
  nextSfId        \* stored_files.id autoincrement

fileVars == <<stored_files, documents, blobs, docparser_new_doc, procs, history,
              ncalls, nextDocId, nextSfId>>

VARIABLES
  raw_lines,      \* table raw_lines: rows [id, doc_id, position, block_type, content]
  lines_document, \* table lines_document: rows [line_id, doc_id, block_id]
  lines_image,    \* table lines_image: rows [line_id, doc_id, filename, image_hash, status, attempts]
  lines_audio,    \* table lines_audio: rows [line_id, doc_id]
  image_jobs,     \* pg_notify channel image_jobs: line ids notified
  lprocs,         \* per caller of LineRepository: the save_lines call in flight
  last_line_call, \* the line call that completed last, and how it ended
  claims,         \* per line id: what claim_task returned, call by call, since the
                  \* image row was last written by anything but claim_task
  lcalls,         \* LineRepository / AudioRepository / ImageRepository calls started
  nextLineId      \* next uuid4() for a raw_lines row

lineVars == <<raw_lines, lines_document, lines_image, lines_audio, image_jobs,
              lprocs, last_line_call, claims, lcalls, nextLineId>>

VARIABLES
  autotag_tasks,         \* table autotag_tasks: rows [id, doc_id, status, attempts]
  autotag_tasks_channel, \* pg_notify channel autotag_tasks_channel: the task ids broadcast, in order
  aprocs,                \* per caller of AutotagRepository: the call in flight
  last_autotag_call,     \* the create_or_get_pending or lock_for_processing call that returned last
  nextTaskId             \* next uuid4() for an autotag_tasks row

tagVars == <<autotag_tasks, autotag_tasks_channel, aprocs, last_autotag_call,
             nextTaskId>>

VARIABLES
  last_reimport,  \* the last UPDATE of a raw line's block_type / content, and what
                  \* the trigger made of the line's image job
  reimports       \* such UPDATEs so far

trigVars == <<last_reimport, reimports>>

VARIABLES
  now,            \* the clock datetime.utcnow() and the database's now() read
  updated_at,     \* per line id: lines_image.updated_at of the line's row
  last_stalled    \* the find_stalled_tasks call that returned last

clockVars == <<now, updated_at, last_stalled>>

(* ------------------------- pure helpers ------------------------------- *)

\* Path(file_name).suffix.lower().lstrip('.') or "bin"
Extension(file_name) ==
  CASE file_name = "a.txt" -> "txt"
    [] file_name = "b.mp3" -> "mp3"
    [] OTHER -> "bin"

AUDIO_EXTS == {"wav", "mp3", "ogg", "m4a", "flac", "aac", "wma", "alac", "opus"}
VIDEO_EXTS == {"mp4", "mov", "mkv", "webm", "avi"}

get_filetype(ext) ==
  IF ext \in AUDIO_EXTS THEN "audio"
  ELSE IF ext \in VIDEO_EXTS THEN "video"
  ELSE "generic"

\* f"{ext}/{doc_id.hex}/raw/{fname}": one path per (file name, document id)
build_object_path(fname, doc_id) ==
  [ext |-> Extension(fname), doc |-> doc_id, fname |-> fname]

NoPath == [ext |-> "", doc |-> None, fname |-> ""]

IdleProc ==
  [pc |-> "idle", op |-> "none", via |-> "none", hash |-> "", name |-> "",
   key |-> "", doc |-> None, sf |-> None, path |-> NoPath, orphan |-> FALSE,
   put |-> FALSE]

\* the call log keeps the last two completed calls
Log(h, e) ==
  LET s == Append(h, e)
  IN IF Len(s) > 2 THEN SubSeq(s, Len(s) - 1, Len(s)) ELSE s

\* what the log keeps of a call: its arguments, the path it took, how it ended
Summary(pr, ok, cause) ==
  [op |-> pr.op, via |-> pr.via, hash |-> pr.hash, doc |-> pr.doc, sf |-> pr.sf,
   path |-> pr.path, put |-> pr.put, orphan |-> pr.orphan, ok |-> ok,
   cause |-> cause]

Finish(p, ok, cause) ==
  /\ procs' = [procs EXCEPT ![p] = IdleProc]
  /\ history' = Log(history, Summary(procs[p], ok, cause))

(* ----------------------- MetaDataRepository --------------------------- *)

\* select(StoredFileORM).where(content_hash == h): the row, or None
get_stored_file_by_hash(h) ==
  IF \E s \in stored_files : s.content_hash = h
  THEN (CHOOSE s \in stored_files : s.content_hash = h).id
  ELSE None

\* UniqueConstraint("owner_id", "user_document_id")
uq_documents_owner_userdoc(k) == \A d \in documents : d.key # k

\* stored_files.content_hash unique=True
uq_stored_files_content_hash(h) == \A s \in stored_files : s.content_hash # h

\* documents.stored_file_id ForeignKey("stored_files.id")
fk_documents_stored_file(sf) == \E s \in stored_files : s.id = sf

\* select(func.count(DocumentORM.id)).where(stored_file_id == sf) == 0
is_stored_file_orphan(sf) == \A d \in documents : d.stored_file_id # sf

\* is_sync_enabled has server_default true
NewDocument(pr, sf) ==
  [id |-> pr.doc, stored_file_id |-> sf, key |-> pr.key, name |-> pr.name,
   doc_type |-> get_filetype(Extension(pr.name)), is_sync_enabled |-> TRUE]

(* ---- db/triggers.py: trg_documents_after_insert on documents ---------- *)

\* the variant of the trigger declared AFTER INSERT OR UPDATE
trg_documents_after_insert_or_update(tg_op) ==
  tg_op \in {"INSERT", "UPDATE"}

\* CREATE TRIGGER trg_documents_after_insert AFTER INSERT ON documents FOR EACH
\* ROW: the statements for whose rows notify_new_document runs
trg_documents_after_insert(tg_op) ==
  tg_op = "INSERT"

\* the channel after the commit of a statement that wrote the rows ids of
\* documents (at most one row here): notify_new_document sends NEW.id
notify_new_document(tg_op, ids) ==
  IF ids # {} /\ trg_documents_after_insert(tg_op)
  THEN Append(docparser_new_doc, CHOOSE id \in ids : TRUE)
  ELSE docparser_new_doc

NewStoredFile(pr) ==
  [id |-> nextSfId, content_hash |-> pr.hash, object_path |-> pr.path,
   extension |-> Extension(pr.name)]

(* ------------------------ DataClient.upload_file ---------------------- *)

\* lines 122-132 and 152: mint the id, hash the content, look the hash up
upload_file(p, h, n, k) ==
  /\ procs[p].pc = "idle"
  /\ ncalls < MaxCalls
  /\ ncalls' = ncalls + 1
  /\ nextDocId' = nextDocId + 1
  /\ LET existing == get_stored_file_by_hash(h)
     IN procs' = [procs EXCEPT ![p] =
          [IdleProc EXCEPT !.op = "upload", !.hash = h, !.name = n, !.key = k,
             !.doc = nextDocId, !.sf = existing,
             !.path = IF existing = None THEN build_object_path(n, nextDocId) ELSE NoPath,
             !.via = IF existing = None THEN "new" ELSE "dup",
             !.pc = IF existing = None THEN "put" ELSE "dup_save"]]
  /\ UNCHANGED <<stored_files, documents, blobs, docparser_new_doc, history, nextSfId>>

\* upload_dup_save with the blob written again on the duplicate path
upload_dup_save_reput(p, fault) ==
  /\ procs[p].pc = "dup_save"
  /\ LET pr == [procs[p] EXCEPT !.put = TRUE]
         ok == ~fault /\ (\A d \in documents : d.key # pr.key)
     IN /\ documents' = IF ok THEN documents \cup
                           {[id |-> pr.doc, stored_file_id |-> pr.sf, key |-> pr.key,
                             name |-> pr.name, doc_type |-> "generic",
                             is_sync_enabled |-> TRUE]}
                        ELSE documents
        /\ docparser_new_doc' = notify_new_document("INSERT", IF ok THEN {pr.doc} ELSE {})
        /\ blobs' = blobs \cup {[object_path |-> [ext |-> "", doc |-> pr.doc, fname |-> pr.name],
                                 content |-> pr.hash]}
        /\ procs' = [procs EXCEPT ![p] = IdleProc]
        /\ history' = Log(history, Summary(pr, ok, "none"))
  /\ UNCHANGED <<stored_files, ncalls, nextDocId, nextSfId>>

\* lines 136-147, MetaDataRepository.save: only the Document row is written.
\* An IntegrityError is wrapped in DatabaseError; any other error leaves as it is.
upload_dup_save(p, fault) ==
  /\ procs[p].pc = "dup_save"
  /\ LET pr == procs[p]
         ok == /\ ~fault
               /\ uq_documents_owner_userdoc(pr.key)
               /\ fk_documents_stored_file(pr.sf)
         cause == IF fault THEN "OperationalError"
                  ELSE IF ~uq_documents_owner_userdoc(pr.key) THEN "uq_documents_owner_userdoc"
                  ELSE IF ~fk_documents_stored_file(pr.sf) THEN "fk_documents_stored_file"
                  ELSE "none"
     IN /\ documents' = IF ok THEN documents \cup {NewDocument(pr, pr.sf)} ELSE documents
        /\ docparser_new_doc' = notify_new_document("INSERT", IF ok THEN {pr.doc} ELSE {})
        /\ Finish(p, ok, cause)
  /\ UNCHANGED <<stored_files, blobs, ncalls, nextDocId, nextSfId>>

\* the variant of the upload that goes on to the transaction with the object
\* not yet in the bucket
upload_put_deferred(p, fault) ==
  /\ procs[p].pc = "put"
  /\ procs' = [procs EXCEPT ![p].pc = IF fault THEN "rollback" ELSE "commit"]
  /\ UNCHANGED <<stored_files, documents, blobs, docparser_new_doc, history, ncalls,
                 nextDocId, nextSfId>>

\* line 156, MinioRepository.put_object: the object is written, or MinioError
upload_put(p, fault) ==
  /\ procs[p].pc = "put"
  /\ IF fault
     THEN /\ procs' = [procs EXCEPT ![p].pc = "rollback"]
          /\ blobs' = blobs
     ELSE /\ procs' = [procs EXCEPT ![p].pc = "commit", ![p].put = TRUE]
          /\ blobs' = blobs \cup {[object_path |-> procs[p].path, content |-> procs[p].hash]}
  /\ UNCHANGED <<stored_files, documents, docparser_new_doc, history, ncalls, nextDocId, nextSfId>>

\* the exceptions `except (DatabaseError, MinioError)` of line 180 catches
Caught(exc) == exc \in {"DatabaseError", "MinioError"}

\* what save_new_physical_file raises for a failed commit: it wraps nothing, so
\* the SQLAlchemy error leaves as it is
CommitError(cause) ==
  IF cause \in {"uq_stored_files_content_hash", "uq_documents_owner_userdoc"}
  THEN "IntegrityError" ELSE "OperationalError"

\* lines 159-178, save_new_physical_file: StoredFile and Document in one commit
upload_commit(p, fault) ==
  /\ procs[p].pc = "commit"
  /\ LET pr == procs[p]
         cause == IF fault THEN "OperationalError"
                  ELSE IF ~uq_stored_files_content_hash(pr.hash) THEN "uq_stored_files_content_hash"
                  ELSE IF ~uq_documents_owner_userdoc(pr.key) THEN "uq_documents_owner_userdoc"
                  ELSE "none"
     IN IF cause = "none"
        THEN /\ stored_files' = stored_files \cup {NewStoredFile(pr)}
             /\ documents' = documents \cup {NewDocument(pr, nextSfId)}
             /\ docparser_new_doc' = notify_new_document("INSERT", {pr.doc})
             /\ nextSfId' = nextSfId + 1
             /\ procs' = [procs EXCEPT ![p] = IdleProc]
             /\ history' = Log(history, [Summary(pr, TRUE, "none") EXCEPT !.sf = nextSfId])
        ELSE /\ UNCHANGED <<stored_files, documents, docparser_new_doc, nextSfId>>
             /\ IF Caught(CommitError(cause))
                THEN /\ procs' = [procs EXCEPT ![p].pc = "rollback"]
                     /\ history' = history
                ELSE Finish(p, FALSE, cause)
  /\ UNCHANGED <<blobs, ncalls, nextDocId>>

\* lines 180-184: remove_object(object_path), then re-raise
upload_rollback(p) ==
  /\ procs[p].pc = "rollback"
  /\ blobs' = {b \in blobs : b.object_path # procs[p].path}
  /\ Finish(p, FALSE, "MinioError")
  /\ UNCHANGED <<stored_files, documents, docparser_new_doc, ncalls, nextDocId, nextSfId>>

(* ------------------------ DataClient.delete_file ---------------------- *)

\* the methods class ObjectRepository defines
ObjectRepository == {"get_stored_file_by_hash", "save_new_physical_file", "list_all"}

\* MetaDataRepository.get_orm: the Document with its joined StoredFile
get_orm(d) == {x \in documents : x.id = d}

\* doc_id ForeignKey("documents.id") of raw_lines, the lines_* tables and
\* autotag_tasks: an INSERT naming a document that does not exist is rejected
fk_child_document(d) == \E x \in documents : x.id = d

\* lines 195-200: load the document; DocumentNotFoundError when there is none
delete_file(p, d) ==
  /\ procs[p].pc = "idle"
  /\ ncalls < MaxCalls
  /\ ncalls' = ncalls + 1
  /\ IF get_orm(d) = {}
     THEN /\ procs' = procs
          /\ history' = Log(history, Summary([IdleProc EXCEPT !.op = "delete", !.doc = d],
                                             FALSE, "DocumentNotFoundError"))
     ELSE LET doc == CHOOSE x \in get_orm(d) : TRUE
              sfs == {s \in stored_files : s.id = doc.stored_file_id}
              sf == CHOOSE s \in sfs : TRUE
          IN /\ procs' = [procs EXCEPT ![p] =
                  [IdleProc EXCEPT !.op = "delete", !.doc = d, !.sf = sf.id,
                     !.hash = sf.content_hash, !.path = sf.object_path,
                     !.pc = "del_doc"]]
             /\ history' = history
  /\ UNCHANGED <<stored_files, documents, blobs, docparser_new_doc, nextDocId, nextSfId>>

\* the variant of MetaDataRepository.delete whose failure comes after the row
\* has gone
delete_doc_row_gone(p, fault) ==
  /\ procs[p].pc = "del_doc"
  /\ documents' = {x \in documents : x.id # procs[p].doc}
  /\ IF fault
     THEN Finish(p, FALSE, "OperationalError")
     ELSE /\ procs' = [procs EXCEPT ![p].pc = "del_check"]
          /\ history' = history
  /\ UNCHANGED <<stored_files, blobs, docparser_new_doc, ncalls, nextDocId, nextSfId>>

\* line 204, MetaDataRepository.delete: the Document row goes, in its own commit
delete_doc(p, fault) ==
  /\ procs[p].pc = "del_doc"
  /\ IF fault
     THEN /\ documents' = documents
          /\ docparser_new_doc' = docparser_new_doc
          /\ Finish(p, FALSE, "OperationalError")
     ELSE /\ documents' = {x \in documents : x.id # procs[p].doc}
          /\ docparser_new_doc' =
               notify_new_document("DELETE", {x.id : x \in get_orm(procs[p].doc)})
          /\ procs' = [procs EXCEPT ![p].pc = "del_check"]
          /\ history' = history
  /\ UNCHANGED <<stored_files, blobs, ncalls, nextDocId, nextSfId>>

\* lines 207-215: is_stored_file_orphan, read after the delete has committed
delete_orphan_check(p) ==
  /\ procs[p].pc = "del_check"
  /\ IF is_stored_file_orphan(procs[p].sf)
     THEN /\ procs' = [procs EXCEPT ![p].pc = "del_blob", ![p].orphan = TRUE]
          /\ history' = history
     ELSE Finish(p, TRUE, "none")
  /\ UNCHANGED <<stored_files, documents, blobs, docparser_new_doc, ncalls, nextDocId, nextSfId>>

\* line 212, MinioRepository.remove_object: the object goes, or MinioError leaves
delete_remove_object(p, fault) ==
  /\ procs[p].pc = "del_blob"
  /\ IF fault
     THEN /\ blobs' = blobs
          /\ Finish(p, FALSE, "MinioError")
     ELSE /\ blobs' = {b \in blobs : b.object_path # procs[p].path}
          /\ procs' = [procs EXCEPT ![p].pc = "del_sf"]
          /\ history' = history
  /\ UNCHANGED <<stored_files, documents, docparser_new_doc, ncalls, nextDocId, nextSfId>>

\* line 213, self.obj.delete_stored_file(stored_file_id): ObjectRepository
\* defines no such method, so the attribute lookup raises AttributeError
delete_stored_file(p) ==
  /\ procs[p].pc = "del_sf"
  /\ IF "delete_stored_file" \in ObjectRepository
     THEN /\ stored_files' = {s \in stored_files : s.id # procs[p].sf}
          /\ Finish(p, TRUE, "none")
     ELSE /\ stored_files' = stored_files
          /\ Finish(p, FALSE, "AttributeError")
  /\ UNCHANGED <<documents, blobs, docparser_new_doc, ncalls, nextDocId, nextSfId>>

(* ------------- MetaDataRepository updates of a Document --------------- *)

\* UPDATE documents SET is_sync_enabled = :flag WHERE id = :id RETURNING *;
\* commit.  Without a row DocumentNotFoundError is raised.
set_sync_status(d, is_enabled) ==
  /\ documents' = {IF x.id = d THEN [x EXCEPT !.is_sync_enabled = is_enabled] ELSE x :
                     x \in documents}
  /\ docparser_new_doc' = notify_new_document("UPDATE", {x.id : x \in get_orm(d)})
  /\ UNCHANGED <<stored_files, blobs, procs, history, ncalls, nextDocId, nextSfId>>

\* UPDATE documents SET name = :name, edited = now() WHERE id = :id
\* RETURNING *; commit: MetaDataRepository.update with the patch {name: ...}
update(d, name) ==
  /\ documents' = {IF x.id = d THEN [x EXCEPT !.name = name] ELSE x : x \in documents}
  /\ docparser_new_doc' = notify_new_document("UPDATE", {x.id : x \in get_orm(d)})
  /\ UNCHANGED <<stored_files, blobs, procs, history, ncalls, nextDocId, nextSfId>>

(* --------------------------- DataClient.get_file ---------------------- *)

\* MetaDataRepository.get: the Document as DocumentInDB, or None
get(d) == {x \in documents : x.id = d}

\* MetaDataRepository.list_all without limit: the ids of the documents listed
list_doc == {x.id : x \in documents}

\* the variant of get_file that does not look the document up
get_file_unchecked(p, d) ==
  /\ procs[p].pc = "idle"
  /\ procs' = procs
  /\ history' = Log(history, Summary([IdleProc EXCEPT !.op = "get", !.doc = d], TRUE, "none"))
  /\ UNCHANGED <<stored_files, documents, blobs, docparser_new_doc, ncalls, nextDocId, nextSfId>>

\* lines 186-189: load the document; DocumentNotFoundError when there is none
get_file(p, d) ==
  /\ procs[p].pc = "idle"
  /\ IF get(d) = {}
     THEN /\ procs' = procs
          /\ history' = Log(history, Summary([IdleProc EXCEPT !.op = "get", !.doc = d],
                                             FALSE, "DocumentNotFoundError"))
     ELSE LET doc == CHOOSE x \in get(d) : TRUE
              sf == CHOOSE s \in stored_files : s.id = doc.stored_file_id
          IN /\ procs' = [procs EXCEPT ![p] =
                  [IdleProc EXCEPT !.op = "get", !.doc = d, !.sf = sf.id,
                     !.hash = sf.content_hash, !.path = sf.object_path,
                     !.pc = "get_obj"]]
             /\ history' = history
  /\ UNCHANGED <<stored_files, documents, blobs, docparser_new_doc, ncalls, nextDocId, nextSfId>>

\* line 190, MinioRepository.get_object: the bytes, or MinioError when the
\* bucket holds no object under the path
get_object(p) ==
  /\ procs[p].pc = "get_obj"
  /\ IF \E b \in blobs : b.object_path = procs[p].path
     THEN Finish(p, TRUE, "none")
     ELSE Finish(p, FALSE, "MinioError")
  /\ UNCHANGED <<stored_files, documents, blobs, docparser_new_doc, ncalls, nextDocId, nextSfId>>

(* ------------------------------ line store ---------------------------- *)

\* raw_lines rows inserted in one behaviour (each takes one uuid4())
MaxLineRows == 3
\* LineRepository, AudioRepository and ImageRepository calls started in one
\* behaviour
MaxLineCalls == 3
\* lines in one save_lines list, sentences in one save_audio_sentences list
MaxLen == 2

LineIds == 1..MaxLineRows
\* the documents the line store is exercised on
LineDocs == {1, 2}
Positions == {0, 1}
DocTypes == {"generic", "audio"}
BlockIds == {"b1", "b2"}
LProcs == {1, 2}
Workers == {1, 2}

\* a line's content: its plain text, and the target of the markdown image
\* reference ![...](target) in it, split at the dots; <<>> when it holds no
\* reference.  TextContent is "hi", MdImage is "![](x.png)".
TextContent == [text |-> "hi", img |-> <<>>]
MdImage == [text |-> "", img |-> <<"x", "png">>]

\* the lines callers pass: a text line, an image placeholder with a block id,
\* an image block, a transcript line with a start_ts
LineKinds ==
  { [block_type |-> "text", content |-> TextContent, block_id |-> "", start_ts |-> None],
    [block_type |-> "image_placeholder", content |-> MdImage, block_id |-> "b1", start_ts |-> None],
    [block_type |-> "image", content |-> MdImage, block_id |-> "", start_ts |-> None],
    [block_type |-> "audio_sentence", content |-> TextContent, block_id |-> "", start_ts |-> 1] }

InputLines ==
  { [position |-> q, block_type |-> k.block_type, content |-> k.content,
     block_id |-> k.block_id, start_ts |-> k.start_ts] : q \in Positions, k \in LineKinds }

LineLists == UNION { [1..n -> InputLines] : n \in 0..MaxLen }
SentenceLists == UNION { [1..n -> Positions] : n \in 0..MaxLen }

NoHash == <<>>

\* re.search(r"!\[[^\]]*\]\(([^)]+)\)"), then the part of the file name before
\* its first dot; None when there is no reference or no dot
parse_image_hash_from_md(content) ==
  IF content.img = <<>> THEN NoHash
  ELSE IF Len(content.img) >= 2 THEN <<content.img[1]>>
  ELSE NoHash

\* NormLine._is_image_block (the input lines carry no is_image flag)
is_image_block(n) == n.block_type \in {"image", "image_placeholder"}

\* regexp_replace(v_filename, '\.[^.]+$', ''): the file name without its last
\* extension
StripExtension(fname) ==
  IF Len(fname) >= 2 THEN SubSeq(fname, 1, Len(fname) - 1) ELSE fname

DocLines(d) == {r \in raw_lines : r.doc_id = d}

IdleLine == [pc |-> "idle", doc |-> None, lines |-> <<>>, doc_type |-> "", had_lines |-> FALSE]

NoLineCall ==
  [op |-> "none", doc |-> None, empty |-> FALSE, had_lines |-> FALSE, ok |-> TRUE,
   cause |-> "none", detail |-> "none", wrote |-> FALSE, block_id |-> ""]

\* a line call returns or raises: what the log keeps of it; wrote tells
\* whether the call left any of the four line tables different
LineRecord(op, d, empty, had, ok, cause, detail) ==
  [op |-> op, doc |-> d, empty |-> empty, had_lines |-> had,
   ok |-> ok, cause |-> cause, detail |-> detail,
   wrote |-> <<raw_lines', lines_document', lines_image', lines_audio'>>
               # <<raw_lines, lines_document, lines_image, lines_audio>>,
   block_id |-> ""]

LineReturn(op, d, empty, had, ok, cause, detail) ==
  last_line_call' = LineRecord(op, d, empty, had, ok, cause, detail)

\* raw_lines rows that calls in flight are about to insert
RECURSIVE Reserved(_)
Reserved(S) ==
  IF S = {} THEN 0
  ELSE LET p == CHOOSE q \in S : TRUE
       IN (IF lprocs[p].pc = "insert" THEN Len(lprocs[p].lines) ELSE 0) + Reserved(S \ {p})

\* the claim_task results kept for a line are dropped when its image row is
\* written by anything else
ClaimsAfter(img) ==
  [id \in LineIds |->
     IF {r \in img : r.line_id = id} = {r \in lines_image : r.line_id = id}
     THEN claims[id] ELSE <<>>]

(* ---- db/triggers.py: trg_raw_lines_image_upsert on raw_lines ---------- *)

\* the function goes past its two early returns
TriggerFires(new) ==
  /\ new.block_type = "image_placeholder"
  /\ new.content.img # <<>>

\* the variant of the upsert whose ON CONFLICT branch sets status 'pending'
\* whatever the status was
UpsertImageRow_always_pending(img, new) ==
  IF \E r \in img : r.line_id = new.id
  THEN LET r == CHOOSE x \in img : x.line_id = new.id
       IN [r EXCEPT !.filename = new.content.img,
                    !.image_hash = StripExtension(new.content.img),
                    !.status = "pending"]
  ELSE [line_id |-> new.id, doc_id |-> new.doc_id, filename |-> new.content.img,
        image_hash |-> StripExtension(new.content.img), status |-> "pending",
        attempts |-> 0]

\* the variant of the upsert whose ON CONFLICT branch also sets attempts to 0
UpsertImageRow_resets_attempts(img, new) ==
  IF \E r \in img : r.line_id = new.id
  THEN LET r == CHOOSE x \in img : x.line_id = new.id
       IN [r EXCEPT !.filename = new.content.img,
                    !.image_hash = StripExtension(new.content.img),
                    !.status = IF r.status = "failed" THEN "pending" ELSE r.status,
                    !.attempts = 0]
  ELSE [line_id |-> new.id, doc_id |-> new.doc_id, filename |-> new.content.img,
        image_hash |-> StripExtension(new.content.img), status |-> "pending",
        attempts |-> 0]

\* INSERT INTO lines_image ... ON CONFLICT (line_id) DO UPDATE, for one row NEW
UpsertImageRow(img, new) ==
  IF \E r \in img : r.line_id = new.id
  THEN LET r == CHOOSE x \in img : x.line_id = new.id
       IN [r EXCEPT !.filename = new.content.img,
                    !.image_hash = StripExtension(new.content.img),
                    !.status = IF r.status = "failed" THEN "pending" ELSE r.status]
  ELSE [line_id |-> new.id, doc_id |-> new.doc_id, filename |-> new.content.img,
        image_hash |-> StripExtension(new.content.img), status |-> "pending",
        attempts |-> 0]

\* lines_image after the trigger ran for every row of news
upsert_image_details_from_raw_line(img, news) ==
  LET fired == {n \in news : TriggerFires(n)}
  IN {r \in img : \A n \in fired : n.id # r.line_id}
       \cup {UpsertImageRow(img, n) : n \in fired}

\* PERFORM pg_notify('image_jobs', ...): the lines the trigger notifies
ImageJobsNotified(news) == {n.id : n \in {m \in news : TriggerFires(m)}}

\* UPDATEs of a raw line's block_type / content in one behaviour
MaxReimports == 2

NoReimport ==
  [line |-> None, fired |-> FALSE, before |-> "absent", after |-> "absent",
   notified |-> FALSE]

\* the status of the image job of a line in the table img; "absent" without a row
StatusIn(img, id) ==
  IF \E r \in img : r.line_id = id
  THEN (CHOOSE r \in img : r.line_id = id).status
  ELSE "absent"

\* UPDATE raw_lines SET block_type = :b, content = :c WHERE id = :id (the
\* statement of update_lines, or of any other writer of the table), for which
\* trg_raw_lines_image_upsert runs AFTER UPDATE OF block_type, content
update_raw_line(id, block_type, content) ==
  LET old == {r \in raw_lines : r.id = id}
      new == {[r EXCEPT !.block_type = block_type, !.content = content] : r \in old}
  IN /\ old # {}
     /\ reimports < MaxReimports
     /\ reimports' = reimports + 1
     /\ raw_lines' = (raw_lines \ old) \cup new
     /\ lines_image' = upsert_image_details_from_raw_line(lines_image, new)
     /\ image_jobs' = image_jobs \cup ImageJobsNotified(new)
     /\ claims' = ClaimsAfter(lines_image')
     /\ last_reimport' = [line |-> id, fired |-> \A n \in new : TriggerFires(n),
                          before |-> StatusIn(lines_image, id),
                          after |-> StatusIn(lines_image', id),
                          notified |-> id \in ImageJobsNotified(new)]
     /\ UNCHANGED <<lines_document, lines_audio, lprocs, last_line_call, lcalls,
                    nextLineId>>

(* ---- LineRepository.save_lines ---------------------------------------- *)

\* Counter(positions) has an entry above 1
DuplicatePositions(lines) ==
  \E i, j \in 1..Len(lines) : i # j /\ lines[i].position = lines[j].position

\* _build_core_values, with the ids the INSERT ... RETURNING assigns
build_core_values(d, lines) ==
  { [id |-> nextLineId + i - 1, doc_id |-> d, position |-> lines[i].position,
     block_type |-> lines[i].block_type, content |-> lines[i].content] : i \in 1..Len(lines) }

\* _build_doc_details: a row for each line that carries a block_id
build_doc_details(d, lines) ==
  { [line_id |-> nextLineId + i - 1, doc_id |-> d, block_id |-> lines[i].block_id] :
      i \in {j \in 1..Len(lines) : lines[j].block_id # ""} }

\* _build_image_details: a row for each image block whose content yields a hash
build_image_details(d, lines, doc_type) ==
  IF doc_type \notin {"generic", "video"} THEN {}
  ELSE { [line_id |-> nextLineId + i - 1, doc_id |-> d,
          filename |-> parse_image_hash_from_md(lines[i].content) \o <<"png">>,
          image_hash |-> parse_image_hash_from_md(lines[i].content),
          status |-> "pending", attempts |-> 0] :
           i \in {j \in 1..Len(lines) :
                    /\ is_image_block(lines[j])
                    /\ parse_image_hash_from_md(lines[j].content) # NoHash} }

\* the variant of _build_audio_details that does not look at start_ts
build_audio_details_every_line(d, lines, doc_type) ==
  IF doc_type # "audio" THEN {}
  ELSE { [line_id |-> nextLineId + i - 1, doc_id |-> d] : i \in 1..Len(lines) }

\* _build_audio_details: a row for each line with a start_ts, audio documents only
build_audio_details(d, lines, doc_type) ==
  IF doc_type # "audio" THEN {}
  ELSE { [line_id |-> nextLineId + i - 1, doc_id |-> d] :
           i \in {j \in 1..Len(lines) : lines[j].start_ts # None} }

\* on_conflict_do_nothing(index_elements=[line_id])
insert_image_details(img, values) ==
  img \cup {v \in values : \A r \in img : r.line_id # v.line_id}

\* the variant of save_lines that does not count the document's raw lines
save_lines_reimport(p, d, lines, doc_type) ==
  /\ lprocs[p].pc = "idle"
  /\ lcalls < MaxLineCalls
  /\ nextLineId + Reserved(LProcs) + Len(lines) - 1 <= MaxLineRows
  /\ lcalls' = lcalls + 1
  /\ UNCHANGED <<raw_lines, lines_document, lines_image, lines_audio, image_jobs,
                 claims, nextLineId>>
  /\ IF lines = <<>>
     THEN /\ LineReturn("save_lines", d, TRUE, DocLines(d) # {}, TRUE, "none", "none")
          /\ UNCHANGED lprocs
     ELSE IF DuplicatePositions(lines)
     THEN /\ LineReturn("save_lines", d, FALSE, DocLines(d) # {}, FALSE, "DatabaseError",
                        "duplicate positions")
          /\ UNCHANGED lprocs
     ELSE /\ lprocs' = [lprocs EXCEPT ![p] =
                 [pc |-> "insert", doc |-> d, lines |-> lines, doc_type |-> doc_type,
                  had_lines |-> DocLines(d) # {}]]
          /\ UNCHANGED last_line_call

\* the variant of save_lines whose validation does not compare positions
save_lines_positions_unchecked(p, d, lines, doc_type) ==
  /\ lprocs[p].pc = "idle"
  /\ lcalls < MaxLineCalls
  /\ nextLineId + Reserved(LProcs) + Len(lines) - 1 <= MaxLineRows
  /\ lcalls' = lcalls + 1
  /\ UNCHANGED <<raw_lines, lines_document, lines_image, lines_audio, image_jobs,
                 claims, nextLineId>>
  /\ IF lines = <<>>
     THEN /\ LineReturn("save_lines", d, TRUE, DocLines(d) # {}, TRUE, "none", "none")
          /\ UNCHANGED lprocs
     ELSE IF DocLines(d) # {}
     THEN /\ LineReturn("save_lines", d, FALSE, TRUE, FALSE, "DatabaseError",
                        "already has lines")
          /\ UNCHANGED lprocs
     ELSE /\ lprocs' = [lprocs EXCEPT ![p] =
                 [pc |-> "insert", doc |-> d, lines |-> lines, doc_type |-> doc_type,
                  had_lines |-> FALSE]]
          /\ UNCHANGED last_line_call

\* lines 110-127 and 255-267: the empty list returns at once; otherwise the
\* unit of work opens, counts the document's raw lines and validates the input
save_lines(p, d, lines, doc_type) ==
  /\ lprocs[p].pc = "idle"
  /\ lcalls < MaxLineCalls
  /\ nextLineId + Reserved(LProcs) + Len(lines) - 1 <= MaxLineRows
  /\ lcalls' = lcalls + 1
  /\ UNCHANGED <<raw_lines, lines_document, lines_image, lines_audio, image_jobs,
                 claims, nextLineId>>
  /\ IF lines = <<>>
     THEN /\ LineReturn("save_lines", d, TRUE, DocLines(d) # {}, TRUE, "none", "none")
          /\ UNCHANGED lprocs
     ELSE IF DocLines(d) # {}
     THEN /\ LineReturn("save_lines", d, FALSE, TRUE, FALSE, "DatabaseError",
                        "already has lines")
          /\ UNCHANGED lprocs
     ELSE IF DuplicatePositions(lines)
     THEN /\ LineReturn("save_lines", d, FALSE, FALSE, FALSE, "DatabaseError",
                        "duplicate positions")
          /\ UNCHANGED lprocs
     ELSE /\ lprocs' = [lprocs EXCEPT ![p] =
                 [pc |-> "insert", doc |-> d, lines |-> lines, doc_type |-> doc_type,
                  had_lines |-> FALSE]]
          /\ UNCHANGED last_line_call

\* the statement of the transaction block that raises SQLAlchemyError, if any
InsertFaults == {"none", "core", "doc", "image", "audio"}

\* the statements of lines 269-281 that are executed: a detail INSERT runs
\* only when it has values
StatementRuns(fault, pr) ==
  CASE fault = "doc" -> build_doc_details(pr.doc, pr.lines) # {}
    [] fault = "image" -> build_image_details(pr.doc, pr.lines, pr.doc_type) # {}
    [] fault = "audio" -> build_audio_details(pr.doc, pr.lines, pr.doc_type) # {}
    [] OTHER -> TRUE

\* the variant of the transaction block that commits what was executed
\* before the failing statement
save_lines_insert_no_rollback(p, fault) ==
  LET pr == lprocs[p]
      core == build_core_values(pr.doc, pr.lines)
      triggered == upsert_image_details_from_raw_line(lines_image, core)
      upto(k) == k \in CASE fault = "none" -> {"core", "doc", "image", "audio"}
                        [] fault = "core" -> {}
                        [] fault = "doc" -> {"core"}
                        [] fault = "image" -> {"core", "doc"}
                        [] fault = "audio" -> {"core", "doc", "image"}
  IN /\ pr.pc = "insert"
     /\ StatementRuns(fault, pr)
     /\ raw_lines' = IF upto("core") THEN raw_lines \cup core ELSE raw_lines
     /\ lines_document' = IF upto("doc")
                          THEN lines_document \cup build_doc_details(pr.doc, pr.lines)
                          ELSE lines_document
     /\ lines_image' = IF upto("image")
                       THEN insert_image_details(triggered,
                              build_image_details(pr.doc, pr.lines, pr.doc_type))
                       ELSE IF upto("core") THEN triggered ELSE lines_image
     /\ lines_audio' = IF upto("audio")
                       THEN lines_audio \cup build_audio_details(pr.doc, pr.lines, pr.doc_type)
                       ELSE lines_audio
     /\ image_jobs' = IF upto("core") THEN image_jobs \cup ImageJobsNotified(core)
                      ELSE image_jobs
     /\ nextLineId' = nextLineId + Len(pr.lines)
     /\ claims' = ClaimsAfter(lines_image')
     /\ lprocs' = [lprocs EXCEPT ![p] = IdleLine]
     /\ IF fault = "none"
        THEN LineReturn("save_lines", pr.doc, FALSE, pr.had_lines, TRUE, "none", "none")
        ELSE LineReturn("save_lines", pr.doc, FALSE, pr.had_lines, FALSE, "DatabaseError",
                        "SQLAlchemyError")
     /\ UNCHANGED lcalls

\* lines 269-283 and AsyncUnitOfWork.__aexit__: the core rows go in (the
\* trigger runs for each), then the detail rows; all of it becomes visible,
\* and the notifications are delivered, at the commit.  A statement that
\* raises SQLAlchemyError is re-raised as DatabaseError and __aexit__ rolls
\* the session back: nothing of the call is kept (the ids drawn are spent)
save_lines_insert(p, fault) ==
  LET pr == lprocs[p]
      core == build_core_values(pr.doc, pr.lines)
      triggered == upsert_image_details_from_raw_line(lines_image, core)
  IN /\ pr.pc = "insert"
     /\ StatementRuns(fault, pr)
     /\ IF fault = "none" /\ fk_child_document(pr.doc)
        THEN /\ raw_lines' = raw_lines \cup core
             /\ lines_document' = lines_document \cup build_doc_details(pr.doc, pr.lines)
             /\ lines_image' = insert_image_details(triggered,
                                  build_image_details(pr.doc, pr.lines, pr.doc_type))
             /\ lines_audio' = lines_audio \cup build_audio_details(pr.doc, pr.lines, pr.doc_type)
             /\ image_jobs' = image_jobs \cup ImageJobsNotified(core)
             /\ claims' = ClaimsAfter(lines_image')
             /\ LineReturn("save_lines", pr.doc, FALSE, pr.had_lines, TRUE, "none", "none")
        ELSE /\ UNCHANGED <<raw_lines, lines_document, lines_image, lines_audio,
                            image_jobs, claims>>
             /\ LineReturn("save_lines", pr.doc, FALSE, pr.had_lines, FALSE, "DatabaseError",
                           "SQLAlchemyError")
     /\ nextLineId' = nextLineId + Len(pr.lines)
     /\ lprocs' = [lprocs EXCEPT ![p] = IdleLine]
     /\ UNCHANGED lcalls

(* ---- LineRepository.update_lines -------------------------------------- *)

\* no line of the block: rollback, return False.  Otherwise the rows upserted
\* into lines_image carry neither filename nor image_hash, both nullable=False
\* without a default: PostgreSQL rejects them before it looks for a conflict,
\* the session rolls back and DatabaseError is raised with raw_lines untouched.
\* lines 289-295: the ids of the document's raw lines whose lines_document
\* row has the block_id
q_ids(d, block_id) ==
  {r.id : r \in {x \in DocLines(d) :
             \E y \in lines_document : y.line_id = x.id /\ y.block_id = block_id}}

\* the variant of update_lines for which a block without lines is an error
update_lines_no_match_raises(p, d, block_id) ==
  /\ lprocs[p].pc = "idle"
  /\ lcalls < MaxLineCalls
  /\ lcalls' = lcalls + 1
  /\ UNCHANGED <<raw_lines, lines_document, lines_image, lines_audio, image_jobs,
                 lprocs, claims, nextLineId>>
  /\ last_line_call' =
       [LineRecord("update_lines", d, FALSE, DocLines(d) # {}, FALSE, "DatabaseError",
                   "IntegrityError") EXCEPT !.block_id = block_id]

update_lines(p, d, block_id) ==
  LET line_ids == q_ids(d, block_id)
  IN /\ lprocs[p].pc = "idle"
     /\ lcalls < MaxLineCalls
     /\ lcalls' = lcalls + 1
     /\ UNCHANGED <<raw_lines, lines_document, lines_image, lines_audio, image_jobs,
                    lprocs, claims, nextLineId>>
     /\ last_line_call' =
          [(IF line_ids = {}
            THEN LineRecord("update_lines", d, FALSE, DocLines(d) # {}, TRUE, "none", "False")
            ELSE LineRecord("update_lines", d, FALSE, DocLines(d) # {}, FALSE,
                            "DatabaseError", "IntegrityError"))
           EXCEPT !.block_id = block_id]

(* ---- LineRepository.get_lines_for_document_joined -------------------- *)

\* one dict of enriched: the raw line with the fields of its detail rows, None
\* where the outer join found no row
EnrichedRow(raw) ==
  [line_id |-> raw.id, doc_id |-> raw.doc_id, position |-> raw.position,
   block_type |-> raw.block_type, content |-> raw.content,
   block_id |-> IF \E x \in lines_document : x.line_id = raw.id
                THEN (CHOOSE x \in lines_document : x.line_id = raw.id).block_id
                ELSE "None",
   image_status |-> IF \E x \in lines_image : x.line_id = raw.id
                    THEN (CHOOSE x \in lines_image : x.line_id = raw.id).status
                    ELSE "None",
   start_ts |-> IF \E x \in lines_audio : x.line_id = raw.id THEN "set" ELSE "None"]

\* the list the loop of lines 505-534 builds: the document's raw lines ORDER BY
\* position (rows of equal position are taken here in the order of their ids)
Enriched(d) ==
  LET rows == DocLines(d)
      Before(r) == Cardinality({x \in rows :
                      \/ x.position < r.position
                      \/ x.position = r.position /\ x.id < r.id})
  IN [i \in 1..Cardinality(rows) |-> EnrichedRow(CHOOSE r \in rows : Before(r) = i - 1)]

\* what the caller receives: the method builds enriched and ends without a
\* return statement, so the call evaluates to None
get_lines_for_document_joined(d) ==
  LET enriched == Enriched(d)
  IN [is_none |-> TRUE, rows |-> <<>>]

(* ---- LineRepository.copy_lines ---------------------------------------- *)

\* one session: the source rows are read, their copies inserted under the
\* target (the trigger runs for each), the detail rows re-keyed through
\* pos2newid and inserted, then the commit.  pos2newid keeps one new id per
\* position; rows of equal position come back in no given order.
copy_lines(p, src, tgt) ==
  LET src_core == DocLines(src)
      n == Cardinality(src_core)
      src_ids == {r.id : r \in src_core}
      PosOf(id) == (CHOOSE r \in src_core : r.id = id).position
      Rank(r) == Cardinality({x \in src_core :
                    \/ x.position < r.position
                    \/ x.position = r.position /\ x.id < r.id})
      inserted == { [id |-> nextLineId + Rank(r), doc_id |-> tgt, position |-> r.position,
                     block_type |-> r.block_type, content |-> r.content] : r \in src_core }
      src_doc == {x \in lines_document : x.line_id \in src_ids}
      src_img == {x \in lines_image : x.line_id \in src_ids}
      src_audio == {x \in lines_audio : x.line_id \in src_ids}
      SamePosition(T) == \E x, y \in T : x # y /\ PosOf(x.line_id) = PosOf(y.line_id)
      triggered == upsert_image_details_from_raw_line(lines_image, inserted)
  IN /\ lprocs[p].pc = "idle"
     /\ lcalls < MaxLineCalls
     /\ nextLineId + Reserved(LProcs) + n - 1 <= MaxLineRows
     /\ lcalls' = lcalls + 1
     /\ UNCHANGED lprocs
     /\ IF src_core = {}
        THEN /\ UNCHANGED <<raw_lines, lines_document, lines_image, lines_audio,
                            image_jobs, claims, nextLineId>>
             /\ LineReturn("copy_lines", tgt, TRUE, DocLines(tgt) # {}, TRUE, "none", "none")
        ELSE \E pos2newid \in [{r.position : r \in src_core} -> {r.id : r \in inserted}] :
               /\ \A q \in DOMAIN pos2newid :
                    \E r \in inserted : r.id = pos2newid[q] /\ r.position = q
               /\ LET doc_values == { [line_id |-> pos2newid[PosOf(x.line_id)], doc_id |-> tgt,
                                       block_id |-> x.block_id] : x \in src_doc }
                      img_values == { [line_id |-> pos2newid[PosOf(x.line_id)], doc_id |-> tgt,
                                       filename |-> x.filename, image_hash |-> x.image_hash,
                                       status |-> x.status, attempts |-> 0] : x \in src_img }
                      audio_values == { [line_id |-> pos2newid[PosOf(x.line_id)], doc_id |-> tgt] :
                                          x \in src_audio }
                      \* two rows of one INSERT, or a row and the one the trigger
                      \* just wrote, under one primary key
                      pk_violation ==
                        \/ SamePosition(src_doc) \/ SamePosition(src_img) \/ SamePosition(src_audio)
                        \/ \E v \in img_values, r \in triggered : r.line_id = v.line_id
                  IN IF pk_violation \/ ~fk_child_document(tgt)
                     THEN /\ UNCHANGED <<raw_lines, lines_document, lines_image, lines_audio,
                                         image_jobs, claims, nextLineId>>
                          /\ LineReturn("copy_lines", tgt, FALSE, DocLines(tgt) # {}, FALSE,
                                        "DatabaseError", "IntegrityError")
                     ELSE /\ raw_lines' = raw_lines \cup inserted
                          /\ lines_document' = lines_document \cup doc_values
                          /\ lines_image' = triggered \cup img_values
                          /\ lines_audio' = lines_audio \cup audio_values
                          /\ image_jobs' = image_jobs \cup ImageJobsNotified(inserted)
                          /\ nextLineId' = nextLineId + n
                          /\ claims' = ClaimsAfter(lines_image')
                          /\ LineReturn("copy_lines", tgt, FALSE, DocLines(tgt) # {}, TRUE,
                                        "none", "none")

(* ---- AudioRepository.replace_audio_sentences_with_meta ---------------- *)

\* one session: the document's lines_audio rows and its audio raw lines go
\* (their detail rows cascade), the sentences are inserted at the positions
\* given, their lines_audio rows keyed through pos_to_id, then the commit
replace_audio_sentences_with_meta(p, d, sentences) ==
  LET audio_rows == {r \in DocLines(d) : r.block_type \in {"audio_sentence", "audio_segment"}}
      gone == {r.id : r \in audio_rows}
      core == { [id |-> nextLineId + i - 1, doc_id |-> d, position |-> sentences[i],
                 block_type |-> "audio_sentence", content |-> TextContent] :
                  i \in 1..Len(sentences) }
      \* two sentences of one position get one line_id from pos_to_id
      pk_violation == \E i, j \in 1..Len(sentences) : i # j /\ sentences[i] = sentences[j]
  IN /\ lprocs[p].pc = "idle"
     /\ lcalls < MaxLineCalls
     /\ nextLineId + Reserved(LProcs) + Len(sentences) - 1 <= MaxLineRows
     /\ lcalls' = lcalls + 1
     /\ UNCHANGED <<lprocs, image_jobs>>
     /\ IF pk_violation
        THEN /\ UNCHANGED <<raw_lines, lines_document, lines_image, lines_audio,
                            claims, nextLineId>>
             /\ LineReturn("save_audio_sentences", d, FALSE, DocLines(d) # {}, FALSE,
                           "DatabaseError", "IntegrityError")
        ELSE /\ raw_lines' = (raw_lines \ audio_rows) \cup core
             /\ lines_document' = {x \in lines_document : x.line_id \notin gone}
             /\ lines_image' = {x \in lines_image : x.line_id \notin gone}
             /\ lines_audio' = {x \in lines_audio : x.line_id \notin gone /\ x.doc_id # d}
                                 \cup {[line_id |-> r.id, doc_id |-> d] : r \in core}
             /\ nextLineId' = nextLineId + Len(sentences)
             /\ claims' = ClaimsAfter(lines_image')
             /\ LineReturn("save_audio_sentences", d, sentences = <<>>, DocLines(d) # {},
                           TRUE, "none", "none")

(* ---- ImageRepository --------------------------------------------------- *)

\* lines_image.line_id ForeignKey("raw_lines.id")
fk_lines_image_line(id) == \E r \in raw_lines : r.id = id

\* upsert of the job row: pending, attempts 0; no notification is sent and
\* lines_image has no trigger.  Without source_line_id it raises before any
\* statement; an unknown line id violates the foreign key.
create_task(d, filename, image_hash, source_line_id) ==
  /\ lcalls < MaxLineCalls
  /\ lcalls' = lcalls + 1
  /\ IF source_line_id = None \/ ~fk_lines_image_line(source_line_id) \/ ~fk_child_document(d)
     THEN UNCHANGED <<lines_image, claims>>
     ELSE /\ lines_image' =
               {r \in lines_image : r.line_id # source_line_id}
                 \cup {[line_id |-> source_line_id, doc_id |-> d, filename |-> filename,
                        image_hash |-> image_hash, status |-> "pending", attempts |-> 0]}
          /\ claims' = ClaimsAfter(lines_image')
  /\ UNCHANGED <<raw_lines, lines_document, lines_audio, image_jobs, lprocs,
                 last_line_call, nextLineId>>

\* what claim_task hands back: the row RETURNING gives, or None
ClaimResult(w, was, rows) ==
  IF rows = {}
  THEN [worker |-> w, got |-> FALSE, was |-> was, status |-> "none", attempts |-> 0]
  ELSE LET r == CHOOSE x \in rows : TRUE
       IN [worker |-> w, got |-> TRUE, was |-> was, status |-> r.status,
           attempts |-> r.attempts]

\* the variant of claim_task whose UPDATE has no predicate on status
claim_task_any_status(w, image_id) ==
  LET hit == {r \in lines_image : r.line_id = image_id}
      upd == {[r EXCEPT !.status = "processing", !.attempts = r.attempts + 1] : r \in hit}
      was == IF hit = {} THEN "absent" ELSE (CHOOSE r \in hit : TRUE).status
  IN /\ lcalls < MaxLineCalls
     /\ lcalls' = lcalls + 1
     /\ lines_image' = (lines_image \ hit) \cup upd
     /\ claims' = [claims EXCEPT ![image_id] = Append(@, ClaimResult(w, was, upd))]
     /\ UNCHANGED <<raw_lines, lines_document, lines_audio, image_jobs, lprocs,
                    last_line_call, nextLineId>>

\* the variant of claim_task whose UPDATE leaves attempts as it is
claim_task_same_attempts(w, image_id) ==
  LET row == {r \in lines_image : r.line_id = image_id}
      hit == {r \in row : r.status \in {"pending", "enqueued"}}
      upd == {[r EXCEPT !.status = "processing"] : r \in hit}
      was == IF row = {} THEN "absent" ELSE (CHOOSE r \in row : TRUE).status
  IN /\ lcalls < MaxLineCalls
     /\ lcalls' = lcalls + 1
     /\ lines_image' = (lines_image \ hit) \cup upd
     /\ claims' = [claims EXCEPT ![image_id] = Append(@, ClaimResult(w, was, upd))]
     /\ UNCHANGED <<raw_lines, lines_document, lines_audio, image_jobs, lprocs,
                    last_line_call, nextLineId>>

\* UPDATE lines_image SET status = 'processing', attempts = attempts + 1
\* WHERE line_id = :id AND status IN ('pending', 'enqueued') RETURNING *; commit
claim_task(w, image_id) ==
  LET row == {r \in lines_image : r.line_id = image_id}
      hit == {r \in row : r.status \in {"pending", "enqueued"}}
      upd == {[r EXCEPT !.status = "processing", !.attempts = r.attempts + 1] : r \in hit}
      was == IF row = {} THEN "absent" ELSE (CHOOSE r \in row : TRUE).status
  IN /\ lcalls < MaxLineCalls
     /\ lcalls' = lcalls + 1
     /\ lines_image' = (lines_image \ hit) \cup upd
     /\ claims' = [claims EXCEPT ![image_id] = Append(@, ClaimResult(w, was, upd))]
     /\ UNCHANGED <<raw_lines, lines_document, lines_audio, image_jobs, lprocs,
                    last_line_call, nextLineId>>

\* the statuses DataClient.mark_image_task_done / _failed / _for_retry set
MarkStatuses == {"done", "failed", "enqueued"}

\* UPDATE lines_image SET status = :status WHERE line_id = :id; commit
update_task_status(image_id, status) ==
  /\ lcalls < MaxLineCalls
  /\ lcalls' = lcalls + 1
  /\ lines_image' = {IF r.line_id = image_id THEN [r EXCEPT !.status = status] ELSE r :
                       r \in lines_image}
  /\ claims' = ClaimsAfter(lines_image')
  /\ UNCHANGED <<raw_lines, lines_document, lines_audio, image_jobs, lprocs,
                 last_line_call, nextLineId>>

(* ---- ImageRepository.find_stalled_tasks ------------------------------ *)

\* how far the clock runs
MaxNow == 2
\* threshold_minutes a reaper may pass
Thresholds == {0, 1}

NoStalledCall == [called |-> FALSE, threshold |-> 0, at |-> 0, result |-> {}]

\* server_default now(), onupdate and the updated_at each UPDATE sets: the
\* rows of the line ids written carry the time of the write
Touch(ids) == updated_at' = [i \in LineIds |-> IF i \in ids THEN now ELSE updated_at[i]]

\* the variant of the query that compares updated_at with <=
find_stalled_tasks_not_strict(threshold_minutes) ==
  LET stalled_since == now - threshold_minutes
  IN {r \in lines_image :
        /\ r.status \in {"enqueued", "processing"}
        /\ updated_at[r.line_id] <= stalled_since}

\* select(ImageLineORM).where(status.in_(("enqueued", "processing")),
\* updated_at < stalled_since)
find_stalled_tasks(threshold_minutes) ==
  LET stalled_since == now - threshold_minutes
  IN {r \in lines_image :
        /\ r.status \in {"enqueued", "processing"}
        /\ updated_at[r.line_id] < stalled_since}

\* a reaper's call: the query is all the session does
find_stalled(threshold_minutes) ==
  /\ last_stalled' = [called |-> TRUE, threshold |-> threshold_minutes, at |-> now,
                      result |-> {r.line_id : r \in find_stalled_tasks(threshold_minutes)}]
  /\ UNCHANGED <<now, updated_at, lineVars>>

\* time passes
tick ==
  /\ now < MaxNow
  /\ now' = now + 1
  /\ UNCHANGED <<updated_at, last_stalled, lineVars>>

(* ---------------------------- autotag queue --------------------------- *)

\* autotag_tasks rows inserted in one behaviour
MaxTasks == 3
\* attempts a task may reach: lock_for_processing takes a task again and again
MaxAttempts == 2

TaskIds == 1..MaxTasks
AProcs == {1, 2}
ActiveStatuses == {"enqueued", "processing"}

\* last_error of a task that has recorded none
NoError == ""

IdleTag == [pc |-> "idle", doc |-> None]

\* what the last call that returns a task handed back: op and arg name the
\* call, task is None when it returned None or raised
NoTagCall ==
  [op |-> "none", arg |-> None, doc |-> None, task |-> None, created |-> FALSE,
   status |-> "none", attempts |-> 0]

(* ---- db/triggers.py: trg_autotag_notify on autotag_tasks -------------- *)

\* the variant of the trigger function that notifies on every write
notify_autotag_task_every_write(tg_op, old_status, new_status) == TRUE

\* notify_autotag_task: an INSERT of an enqueued row, or an UPDATE that takes
\* a row to enqueued from another status
notify_autotag_task(tg_op, old_status, new_status) ==
  IF tg_op = "INSERT" THEN new_status = "enqueued"
  ELSE new_status = "enqueued" /\ old_status # "enqueued"

\* the channel after an UPDATE ... WHERE id = task_id that sets a status: the
\* trigger runs for the row the statement matched
AfterUpdate(task_id, matched, new_status) ==
  IF \E t \in matched : notify_autotag_task("UPDATE", t.status, new_status)
  THEN Append(autotag_tasks_channel, task_id)
  ELSE autotag_tasks_channel

\* select(AutotagTaskORM).where(doc_id == d, status.in_(["enqueued",
\* "processing"])).limit(1): the active tasks the query may return
ActiveTasks(d) == {t \in autotag_tasks : t.doc_id = d /\ t.status \in ActiveStatuses}

\* lines 40-53: the lookup; an active task is returned as it is
create_or_get_pending(p, d) ==
  /\ aprocs[p].pc = "idle"
  /\ nextTaskId + Cardinality({q \in AProcs : aprocs[q].pc = "insert"}) <= MaxTasks
  /\ IF ActiveTasks(d) # {}
     THEN /\ \E t \in ActiveTasks(d) :
               last_autotag_call' =
                 [op |-> "create_or_get_pending", arg |-> d, doc |-> d, task |-> t.id,
                  created |-> FALSE, status |-> t.status, attempts |-> t.attempts]
          /\ UNCHANGED aprocs
     ELSE /\ aprocs' = [aprocs EXCEPT ![p] = [pc |-> "insert", doc |-> d]]
          /\ UNCHANGED last_autotag_call
  /\ UNCHANGED <<autotag_tasks, autotag_tasks_channel, nextTaskId>>

\* lines 55-60: AutotagTaskORM(doc_id=...), status enqueued by default; add,
\* commit (trg_autotag_notify runs for the new row), refresh
create_or_get_pending_insert(p) ==
  /\ aprocs[p].pc = "insert"
  /\ IF fk_child_document(aprocs[p].doc)
     THEN /\ autotag_tasks' = autotag_tasks \cup
               {[id |-> nextTaskId, doc_id |-> aprocs[p].doc, status |-> "enqueued",
                 attempts |-> 0, last_error |-> NoError]}
          /\ autotag_tasks_channel' =
               IF notify_autotag_task("INSERT", "none", "enqueued")
               THEN Append(autotag_tasks_channel, nextTaskId)
               ELSE autotag_tasks_channel
          /\ nextTaskId' = nextTaskId + 1
          /\ last_autotag_call' =
               [op |-> "create_or_get_pending", arg |-> aprocs[p].doc, doc |-> aprocs[p].doc,
                task |-> nextTaskId, created |-> TRUE, status |-> "enqueued", attempts |-> 0]
     ELSE \* the document has gone: the commit raises IntegrityError
          /\ UNCHANGED <<autotag_tasks, autotag_tasks_channel, nextTaskId>>
          /\ last_autotag_call' =
               [NoTagCall EXCEPT !.op = "create_or_get_pending", !.arg = aprocs[p].doc,
                                 !.doc = aprocs[p].doc]
  /\ aprocs' = [aprocs EXCEPT ![p] = IdleTag]

\* the variant of lock_for_processing that takes enqueued tasks only
lock_for_processing_enqueued_only(task_id) ==
  LET matched == {t \in autotag_tasks : t.id = task_id /\ t.status = "enqueued"}
      updated == {[t EXCEPT !.status = "processing", !.attempts = t.attempts + 1] : t \in matched}
  IN /\ \A t \in autotag_tasks : t.id = task_id => t.attempts < MaxAttempts
     /\ autotag_tasks' = (autotag_tasks \ matched) \cup updated
     /\ autotag_tasks_channel' = AfterUpdate(task_id, matched, "processing")
     /\ last_autotag_call' =
          IF updated = {}
          THEN [NoTagCall EXCEPT !.op = "lock_for_processing", !.arg = task_id]
          ELSE LET t == CHOOSE x \in updated : TRUE
               IN [op |-> "lock_for_processing", arg |-> task_id, doc |-> t.doc_id,
                   task |-> t.id, created |-> FALSE, status |-> t.status,
                   attempts |-> t.attempts]
     /\ UNCHANGED <<aprocs, nextTaskId>>

\* UPDATE autotag_tasks SET status = 'processing', attempts = attempts + 1
\* WHERE id = :id AND status IN ('enqueued', 'processing') RETURNING *; commit.
\* The row RETURNING gives is handed back, None when the UPDATE matched none.
lock_for_processing(task_id) ==
  LET matched == {t \in autotag_tasks : t.id = task_id /\ t.status \in ActiveStatuses}
      updated == {[t EXCEPT !.status = "processing", !.attempts = t.attempts + 1] : t \in matched}
  IN /\ \A t \in autotag_tasks : t.id = task_id => t.attempts < MaxAttempts
     /\ autotag_tasks' = (autotag_tasks \ matched) \cup updated
     /\ autotag_tasks_channel' = AfterUpdate(task_id, matched, "processing")
     /\ last_autotag_call' =
          IF updated = {}
          THEN [NoTagCall EXCEPT !.op = "lock_for_processing", !.arg = task_id]
          ELSE LET t == CHOOSE x \in updated : TRUE
               IN [op |-> "lock_for_processing", arg |-> task_id, doc |-> t.doc_id,
                   task |-> t.id, created |-> FALSE, status |-> t.status,
                   attempts |-> t.attempts]
     /\ UNCHANGED <<aprocs, nextTaskId>>

\* UPDATE autotag_tasks SET last_error = :error WHERE id = :id; commit.  The
\* status is not in the SET list: the trigger sees it unchanged.
update_error(task_id) ==
  LET matched == {t \in autotag_tasks : t.id = task_id}
  IN /\ autotag_tasks' = {IF t.id = task_id THEN [t EXCEPT !.last_error = "error"] ELSE t :
                            t \in autotag_tasks}
     /\ autotag_tasks_channel' =
          IF \E t \in matched : notify_autotag_task("UPDATE", t.status, t.status)
          THEN Append(autotag_tasks_channel, task_id)
          ELSE autotag_tasks_channel
     /\ UNCHANGED <<aprocs, last_autotag_call, nextTaskId>>

\* UPDATE autotag_tasks SET status = 'done' WHERE id = :id; commit
mark_done(task_id) ==
  LET matched == {t \in autotag_tasks : t.id = task_id}
  IN /\ autotag_tasks' = {IF t.id = task_id THEN [t EXCEPT !.status = "done"] ELSE t :
                            t \in autotag_tasks}
     /\ autotag_tasks_channel' = AfterUpdate(task_id, matched, "done")
     /\ UNCHANGED <<aprocs, last_autotag_call, nextTaskId>>

\* UPDATE autotag_tasks SET status = 'failed', last_error = :reason
\* WHERE id = :id; commit
mark_failed(task_id) ==
  LET matched == {t \in autotag_tasks : t.id = task_id}
  IN /\ autotag_tasks' = {IF t.id = task_id
                          THEN [t EXCEPT !.status = "failed", !.last_error = "error"]
                          ELSE t : t \in autotag_tasks}
     /\ autotag_tasks_channel' = AfterUpdate(task_id, matched, "failed")
     /\ UNCHANGED <<aprocs, last_autotag_call, nextTaskId>>

(* ------------- MetaDataRepository.delete and its cascades -------------- *)

\* the rows ON DELETE CASCADE takes with document d: its raw lines, the detail
\* rows that name d or one of those lines, and its autotag tasks
on_delete_cascade(d) ==
  LET gone == {r.id : r \in {x \in raw_lines : x.doc_id = d}}
      Kept(T) == {x \in T : x.doc_id # d /\ x.line_id \notin gone}
  IN /\ raw_lines' = {r \in raw_lines : r.doc_id # d}
     /\ lines_document' = Kept(lines_document)
     /\ lines_image' = Kept(lines_image)
     /\ lines_audio' = Kept(lines_audio)
     /\ autotag_tasks' = {t \in autotag_tasks : t.doc_id # d}
     /\ claims' = ClaimsAfter(lines_image')

\* the variant of the DELETE whose foreign keys do not cascade
delete_keeps_children(p, fault) ==
  /\ delete_doc(p, fault)
  /\ UNCHANGED <<raw_lines, lines_document, lines_image, lines_audio, autotag_tasks, claims>>
  /\ UNCHANGED <<image_jobs, lprocs, last_line_call, lcalls, nextLineId>>
  /\ UNCHANGED <<autotag_tasks_channel, aprocs, last_autotag_call, nextTaskId>>

\* delete(DocumentORM).where(id == doc_id), commit: the row goes and, in the
\* same statement, every row that references it
delete(p, fault) ==
  /\ delete_doc(p, fault)
  /\ IF fault
     THEN UNCHANGED <<raw_lines, lines_document, lines_image, lines_audio, autotag_tasks,
                      claims>>
     ELSE on_delete_cascade(procs[p].doc)
  /\ UNCHANGED <<image_jobs, lprocs, last_line_call, lcalls, nextLineId>>
  /\ UNCHANGED <<autotag_tasks_channel, aprocs, last_autotag_call, nextTaskId>>

(* --------------------------- specifications --------------------------- *)

vars == <<fileVars, lineVars, tagVars, trigVars, clockVars>>

FileInit ==
  /\ stored_files = {}
  /\ documents = {}
  /\ blobs = {}
  /\ docparser_new_doc = <<>>
  /\ procs = [p \in Procs |-> IdleProc]
  /\ history = <<>>
  /\ ncalls = 0
  /\ nextDocId = 1
  /\ nextSfId = 1

LinesInit ==
  /\ raw_lines = {}
  /\ lines_document = {}
  /\ lines_image = {}
  /\ lines_audio = {}
  /\ image_jobs = {}
  /\ lprocs = [p \in LProcs |-> IdleLine]
  /\ last_line_call = NoLineCall
  /\ claims = [id \in LineIds |-> <<>>]
  /\ lcalls = 0
  /\ nextLineId = 1

TagInit ==
  /\ autotag_tasks = {}
  /\ autotag_tasks_channel = <<>>
  /\ aprocs = [p \in AProcs |-> IdleTag]
  /\ last_autotag_call = NoTagCall
  /\ nextTaskId = 1

TrigInit ==
  /\ last_reimport = NoReimport
  /\ reimports = 0

\* no image row has been written and nobody has asked for stalled jobs
ClockInit ==
  /\ now = 0
  /\ updated_at = [i \in LineIds |-> 0]
  /\ last_stalled = NoStalledCall

\* an empty database and an empty bucket
Init == FileInit /\ LinesInit /\ TagInit /\ TrigInit /\ ClockInit

\* what upload_file leaves of a new file
UploadedCall(h, n, k, d, sf) ==
  [IdleProc EXCEPT !.op = "upload", !.via = "new", !.hash = h, !.name = n, !.key = k,
                   !.doc = d, !.sf = sf, !.path = build_object_path(n, d), !.put = TRUE]

\* the file store after upload_file("a.txt", "hello") and upload_file("b.mp3",
\* "world"): document 1 is generic, document 2 is audio
Uploaded ==
  /\ stored_files =
       {[id |-> 1, content_hash |-> "hello", object_path |-> build_object_path("a.txt", 1),
         extension |-> "txt"],
        [id |-> 2, content_hash |-> "world", object_path |-> build_object_path("b.mp3", 2),
         extension |-> "mp3"]}
  /\ documents = {NewDocument(UploadedCall("hello", "a.txt", "u1", 1, 1), 1),
                  NewDocument(UploadedCall("world", "b.mp3", "u2", 2, 2), 2)}
  /\ blobs = {[object_path |-> build_object_path("a.txt", 1), content |-> "hello"],
              [object_path |-> build_object_path("b.mp3", 2), content |-> "world"]}
  /\ docparser_new_doc = <<1, 2>>
  /\ procs = [p \in Procs |-> IdleProc]
  /\ history = <<Summary(UploadedCall("hello", "a.txt", "u1", 1, 1), TRUE, "none"),
                 Summary(UploadedCall("world", "b.mp3", "u2", 2, 2), TRUE, "none")>>
  /\ ncalls = 2
  /\ nextDocId = 3
  /\ nextSfId = 3

InitUploaded == Uploaded /\ LinesInit /\ TagInit /\ TrigInit /\ ClockInit

\* one client calling upload_file and delete_file one after the other; the
\* database and the object store may fail at any call
NextSeq ==
  \E p \in SeqProcs :
    \/ \E h \in Contents, n \in FileNames, k \in Keys :
         upload_file(p, h, n, k) /\ UNCHANGED <<lineVars, tagVars, trigVars, clockVars>>
    \/ \E f \in BOOLEAN : upload_dup_save(p, f) /\ UNCHANGED <<lineVars, tagVars, trigVars, clockVars>>
    \/ \E f \in BOOLEAN : upload_put(p, f) /\ UNCHANGED <<lineVars, tagVars, trigVars, clockVars>>
    \/ \E f \in BOOLEAN : upload_commit(p, f) /\ UNCHANGED <<lineVars, tagVars, trigVars, clockVars>>
    \/ upload_rollback(p) /\ UNCHANGED <<lineVars, tagVars, trigVars, clockVars>>
    \/ \E d \in DocIds : delete_file(p, d) /\ UNCHANGED <<lineVars, tagVars, trigVars, clockVars>>
    \/ \E f \in BOOLEAN : delete_doc(p, f) /\ UNCHANGED <<lineVars, tagVars, trigVars, clockVars>>
    \/ delete_orphan_check(p) /\ UNCHANGED <<lineVars, tagVars, trigVars, clockVars>>
    \/ \E f \in BOOLEAN : delete_remove_object(p, f) /\ UNCHANGED <<lineVars, tagVars, trigVars, clockVars>>
    \/ delete_stored_file(p) /\ UNCHANGED <<lineVars, tagVars, trigVars, clockVars>>

SpecSeq == Init /\ [][NextSeq]_vars

\* one client that uploads and deletes, and writers that update documents
NextNotify ==
  \/ NextSeq
  \/ \E d \in DocIds, flag \in BOOLEAN :
       set_sync_status(d, flag) /\ UNCHANGED <<lineVars, tagVars, trigVars, clockVars>>
  \/ \E d \in DocIds, n \in FileNames :
       update(d, n) /\ UNCHANGED <<lineVars, tagVars, trigVars, clockVars>>

SpecNotify == Init /\ [][NextNotify]_vars

\* one request handler at a time that also reads files back
NextGet ==
  \/ NextSeq
  \/ \E p \in SeqProcs, d \in DocIds :
       get_file(p, d) /\ UNCHANGED <<lineVars, tagVars, trigVars, clockVars>>
  \/ \E p \in SeqProcs : get_object(p) /\ UNCHANGED <<lineVars, tagVars, trigVars, clockVars>>

SpecGet == Init /\ [][NextGet]_vars

\* concurrent request handlers; the database and the object store do not fail
\* on their own, so every error is one a constraint raises
NextConc ==
  \E p \in Procs :
    \/ \E h \in Contents, n \in FileNames, k \in Keys :
         upload_file(p, h, n, k) /\ UNCHANGED <<lineVars, tagVars, trigVars, clockVars>>
    \/ upload_dup_save(p, FALSE) /\ UNCHANGED <<lineVars, tagVars, trigVars, clockVars>>
    \/ upload_put(p, FALSE) /\ UNCHANGED <<lineVars, tagVars, trigVars, clockVars>>
    \/ upload_commit(p, FALSE) /\ UNCHANGED <<lineVars, tagVars, trigVars, clockVars>>
    \/ \E d \in DocIds : delete_file(p, d) /\ UNCHANGED <<lineVars, tagVars, trigVars, clockVars>>
    \/ delete_doc(p, FALSE) /\ UNCHANGED <<lineVars, tagVars, trigVars, clockVars>>
    \/ delete_orphan_check(p) /\ UNCHANGED <<lineVars, tagVars, trigVars, clockVars>>
    \/ delete_remove_object(p, FALSE) /\ UNCHANGED <<lineVars, tagVars, trigVars, clockVars>>
    \/ delete_stored_file(p) /\ UNCHANGED <<lineVars, tagVars, trigVars, clockVars>>

SpecConc == Init /\ [][NextConc]_vars

\* documents.doc_type of the document, which callers pass to save_lines
DocTypeOf(d) == (CHOOSE x \in documents : x.id = d).doc_type

\* callers of LineRepository and AudioRepository over the two uploaded
\* documents; the steps of their calls interleave
NextLines ==
  \/ \E p \in LProcs, d \in LineDocs, lines \in LineLists :
       save_lines(p, d, lines, DocTypeOf(d)) /\ UNCHANGED <<fileVars, tagVars, trigVars, clockVars>>
  \/ \E p \in LProcs, fault \in InsertFaults :
       save_lines_insert(p, fault) /\ UNCHANGED <<fileVars, tagVars, trigVars, clockVars>>
  \/ \E p \in LProcs, d \in LineDocs, b \in BlockIds :
       update_lines(p, d, b) /\ UNCHANGED <<fileVars, tagVars, trigVars, clockVars>>
  \/ \E p \in LProcs, src \in LineDocs, tgt \in LineDocs :
       copy_lines(p, src, tgt) /\ UNCHANGED <<fileVars, tagVars, trigVars, clockVars>>
  \/ \E p \in LProcs, d \in LineDocs, sentences \in SentenceLists :
       replace_audio_sentences_with_meta(p, d, sentences) /\ UNCHANGED <<fileVars, tagVars, trigVars, clockVars>>

SpecLines == InitUploaded /\ [][NextLines]_vars

\* one importer of lines and the workers of the image queue, over the two
\* uploaded documents
NextImages ==
  \/ \E p \in SeqProcs, d \in LineDocs, lines \in LineLists :
       save_lines(p, d, lines, DocTypeOf(d)) /\ UNCHANGED <<fileVars, tagVars, trigVars, clockVars>>
  \/ \E p \in SeqProcs : save_lines_insert(p, "none") /\ UNCHANGED <<fileVars, tagVars, trigVars, clockVars>>
  \/ \E d \in LineDocs, id \in LineIds \cup {None} :
       create_task(d, <<"x", "png">>, <<"x">>, id) /\ UNCHANGED <<fileVars, tagVars, trigVars, clockVars>>
  \/ \E w \in Workers, id \in LineIds : claim_task(w, id) /\ UNCHANGED <<fileVars, tagVars, trigVars, clockVars>>
  \/ \E id \in LineIds, st \in MarkStatuses :
       update_task_status(id, st) /\ UNCHANGED <<fileVars, tagVars, trigVars, clockVars>>

SpecImages == InitUploaded /\ [][NextImages]_vars

\* block_type and content an UPDATE of a raw line may set
RawKinds == {<<k.block_type, k.content>> : k \in LineKinds}

\* the lists of one line
OneLineLists == {l \in LineLists : Len(l) = 1}

\* the ids of the lines_image rows a step writes
Written == {r.line_id : r \in lines_image' \ lines_image}

\* the lists whose lines are all image lines
ImageLists == {l \in LineLists : \A i \in 1..Len(l) : is_image_block(l[i])}

\* one importer, the workers of the image queue and a reaper, with the clock
\* running
NextStalled ==
  \/ \E p \in SeqProcs, d \in LineDocs, lines \in ImageLists :
       /\ save_lines(p, d, lines, DocTypeOf(d))
       /\ UNCHANGED <<fileVars, tagVars, trigVars, clockVars>>
  \/ \E p \in SeqProcs :
       /\ save_lines_insert(p, "none")
       /\ Touch(Written)
       /\ UNCHANGED <<fileVars, tagVars, trigVars, now, last_stalled>>
  \/ \E w \in Workers, id \in LineIds :
       /\ claim_task(w, id)
       /\ Touch(Written)
       /\ UNCHANGED <<fileVars, tagVars, trigVars, now, last_stalled>>
  \/ \E id \in LineIds, st \in MarkStatuses :
       /\ update_task_status(id, st)
       /\ Touch({r.line_id : r \in {x \in lines_image : x.line_id = id}})
       /\ UNCHANGED <<fileVars, tagVars, trigVars, now, last_stalled>>
  \/ tick /\ UNCHANGED <<fileVars, tagVars, trigVars>>
  \/ \E th \in Thresholds : find_stalled(th) /\ UNCHANGED <<fileVars, tagVars, trigVars>>

SpecStalled == InitUploaded /\ [][NextStalled]_vars

\* the reaper's poll and the passing of time, as steps of NextStalled
Poll == \E th \in Thresholds : find_stalled(th) /\ UNCHANGED <<fileVars, tagVars, trigVars>>
Tick == tick /\ UNCHANGED <<fileVars, tagVars, trigVars>>

\* the reaper keeps polling and time keeps passing; no worker is obliged to
\* claim anything
SpecStalledFair == SpecStalled /\ WF_vars(Poll) /\ WF_vars(Tick)

\* one importer of single lines, the workers of the image queue and writers
\* that update raw lines in place, over the two uploaded documents
NextReimport ==
  \/ \E p \in SeqProcs, d \in LineDocs, lines \in OneLineLists :
       save_lines(p, d, lines, DocTypeOf(d)) /\ UNCHANGED <<fileVars, tagVars, trigVars, clockVars>>
  \/ \E p \in SeqProcs : save_lines_insert(p, "none") /\ UNCHANGED <<fileVars, tagVars, trigVars, clockVars>>
  \/ \E id \in LineIds, k \in RawKinds :
       update_raw_line(id, k[1], k[2]) /\ UNCHANGED <<fileVars, tagVars, clockVars>>
  \/ \E w \in Workers, id \in LineIds :
       claim_task(w, id) /\ UNCHANGED <<fileVars, tagVars, trigVars, clockVars>>
  \/ \E id \in LineIds, st \in MarkStatuses :
       update_task_status(id, st) /\ UNCHANGED <<fileVars, tagVars, trigVars, clockVars>>

SpecReimport == InitUploaded /\ [][NextReimport]_vars

\* the importer, the workers and the writers of raw lines, with callers of
\* create_task and update_lines
NextAttempts ==
  \/ NextReimport
  \/ \E d \in LineDocs, id \in LineIds :
       create_task(d, <<"x", "png">>, <<"x">>, id)
         /\ UNCHANGED <<fileVars, tagVars, trigVars, clockVars>>
  \/ \E p \in SeqProcs, d \in LineDocs, b \in BlockIds :
       update_lines(p, d, b) /\ UNCHANGED <<fileVars, tagVars, trigVars, clockVars>>

SpecAttempts == InitUploaded /\ [][NextAttempts]_vars

\* "![](a.b.png)" and "![](y)": references to a file name with two dots and
\* to one with none
MdImageTwoDots == [text |-> "", img |-> <<"a", "b", "png">>]
MdImageNoDot == [text |-> "", img |-> <<"y">>]

\* single lines of every block type with every content, none with a block id
\* or a start_ts
HashLists ==
  { <<[position |-> q, block_type |-> b, content |-> c, block_id |-> "", start_ts |-> None]>> :
      q \in Positions, b \in {"text", "image", "image_placeholder"},
      c \in {TextContent, MdImage, MdImageTwoDots, MdImageNoDot} }

\* one importer of single lines whose contents name image files of several
\* shapes
NextHash ==
  \/ \E p \in SeqProcs, d \in LineDocs, lines \in HashLists :
       save_lines(p, d, lines, DocTypeOf(d)) /\ UNCHANGED <<fileVars, tagVars, trigVars, clockVars>>
  \/ \E p \in SeqProcs : save_lines_insert(p, "none") /\ UNCHANGED <<fileVars, tagVars, trigVars, clockVars>>

SpecHash == InitUploaded /\ [][NextHash]_vars

\* lines of plain text and of speech, with and without start_ts and end_ts
AudioLines ==
  { [position |-> q, block_type |-> b, content |-> TextContent, block_id |-> "",
     start_ts |-> s, end_ts |-> e] :
      q \in Positions, b \in {"text", "audio_sentence"}, s \in {None, 1}, e \in {None, 2} }

AudioLists == {<<a>> : a \in AudioLines} \cup {<<a, b>> : a, b \in AudioLines}

\* one importer of spoken lines
NextAudio ==
  \/ \E p \in SeqProcs, d \in LineDocs, lines \in AudioLists :
       save_lines(p, d, lines, DocTypeOf(d))
         /\ UNCHANGED <<fileVars, tagVars, trigVars, clockVars>>
  \/ \E p \in SeqProcs :
       save_lines_insert(p, "none") /\ UNCHANGED <<fileVars, tagVars, trigVars, clockVars>>

SpecAudio == InitUploaded /\ [][NextAudio]_vars

\* callers of the autotag queue over the two uploaded documents
NextAutotag ==
  \/ \E p \in AProcs, d \in LineDocs :
       create_or_get_pending(p, d) /\ UNCHANGED <<fileVars, lineVars, trigVars, clockVars>>
  \/ \E p \in AProcs : create_or_get_pending_insert(p) /\ UNCHANGED <<fileVars, lineVars, trigVars, clockVars>>
  \/ \E id \in TaskIds : lock_for_processing(id) /\ UNCHANGED <<fileVars, lineVars, trigVars, clockVars>>
  \/ \E id \in TaskIds : update_error(id) /\ UNCHANGED <<fileVars, lineVars, trigVars, clockVars>>
  \/ \E id \in TaskIds : mark_done(id) /\ UNCHANGED <<fileVars, lineVars, trigVars, clockVars>>
  \/ \E id \in TaskIds : mark_failed(id) /\ UNCHANGED <<fileVars, lineVars, trigVars, clockVars>>

SpecAutotag == InitUploaded /\ [][NextAutotag]_vars

\* the lists of one line of each kind
KindLists ==
  { <<[position |-> 0, block_type |-> k.block_type, content |-> k.content,
       block_id |-> k.block_id, start_ts |-> k.start_ts]>> : k \in LineKinds }

\* the doc_type a caller of save_lines passes: the document's, when it is there
CallerDocType(d, t) == fk_child_document(d) => t = DocTypeOf(d)

\* one client that deletes documents while lines, image jobs and autotag tasks
\* are written for them
NextCascade ==
  \/ \E p \in SeqProcs, d \in LineDocs :
       delete_file(p, d) /\ UNCHANGED <<lineVars, tagVars, trigVars, clockVars>>
  \/ \E p \in SeqProcs, f \in BOOLEAN : delete(p, f) /\ UNCHANGED <<trigVars, clockVars>>
  \/ \E p \in SeqProcs :
       delete_orphan_check(p) /\ UNCHANGED <<lineVars, tagVars, trigVars, clockVars>>
  \/ \E p \in SeqProcs, f \in BOOLEAN :
       delete_remove_object(p, f) /\ UNCHANGED <<lineVars, tagVars, trigVars, clockVars>>
  \/ \E p \in SeqProcs :
       delete_stored_file(p) /\ UNCHANGED <<lineVars, tagVars, trigVars, clockVars>>
  \/ \E p \in SeqProcs, d \in LineDocs, lines \in KindLists, t \in DocTypes :
       /\ CallerDocType(d, t)
       /\ save_lines(p, d, lines, t)
       /\ UNCHANGED <<fileVars, tagVars, trigVars, clockVars>>
  \/ \E p \in SeqProcs :
       save_lines_insert(p, "none") /\ UNCHANGED <<fileVars, tagVars, trigVars, clockVars>>
  \/ \E p \in SeqProcs, src \in LineDocs, tgt \in LineDocs :
       copy_lines(p, src, tgt) /\ UNCHANGED <<fileVars, tagVars, trigVars, clockVars>>
  \/ \E d \in LineDocs, id \in LineIds :
       create_task(d, <<"x", "png">>, <<"x">>, id)
         /\ UNCHANGED <<fileVars, tagVars, trigVars, clockVars>>
  \/ \E p \in SeqProcs, d \in LineDocs :
       create_or_get_pending(p, d) /\ UNCHANGED <<fileVars, lineVars, trigVars, clockVars>>
  \/ \E p \in SeqProcs :
       create_or_get_pending_insert(p) /\ UNCHANGED <<fileVars, lineVars, trigVars, clockVars>>

SpecCascade == InitUploaded /\ [][NextCascade]_vars

(* ------------------------------ claims -------------------------------- *)

AllIdle == \A p \in Procs : procs[p].pc = "idle"

Last == history[Len(history)]

\* the two most recent calls are uploads of one content that both returned,
\* the first of them through the new-content path
TwoUploadsInSequence ==
  /\ AllIdle
  /\ Len(history) = 2
  /\ history[1].op = "upload" /\ history[2].op = "upload"
  /\ history[1].ok /\ history[2].ok
  /\ history[1].hash = history[2].hash
  /\ history[1].via = "new"

\* C1: after two upload_file calls in sequence with identical content there is
\* exactly one StoredFile row with that hash, whose one blob object is the one
\* the first call put; the second call took the duplicate path, put no blob and
\* inserted no StoredFile row; both Documents exist and reference that row.
C1_TwoUploadsOneStoredFile ==
  TwoUploadsInSequence =>
    LET h == history[1].hash
        rows == {s \in stored_files : s.content_hash = h}
        docs == {d \in documents : d.id \in {history[1].doc, history[2].doc}}
    IN /\ Cardinality(rows) = 1
       /\ \A s \in rows :
            /\ s.id = history[1].sf
            /\ s.object_path = history[1].path
            /\ [object_path |-> s.object_path, content |-> h] \in blobs
            /\ Cardinality({b \in blobs : b.object_path = s.object_path}) = 1
            /\ history[2].sf = s.id
            /\ \A d \in docs : d.stored_file_id = s.id
       /\ history[1].put
       /\ history[2].via = "dup" /\ ~history[2].put
       /\ \A b \in blobs : b.object_path.doc # history[2].doc
       /\ Cardinality(docs) = 2

C1_Witness ==
  /\ TwoUploadsInSequence
  /\ history[2].via = "dup"
  /\ Cardinality({d \in documents : d.id \in {history[1].doc, history[2].doc}
                                    /\ d.name = "b.mp3"}) = 1

\* a delete_file call that found its document and met no database or storage outage
DeleteCompleted ==
  /\ AllIdle
  /\ Len(history) >= 1
  /\ Last.op = "delete"
  /\ Last.cause \in {"none", "AttributeError"}

\* C2: after delete_file(d) completes, the StoredFile row and its blob are both
\* removed if no other Document references the StoredFile, and both remain if
\* another Document still references it.
C2_DeleteRemovesOrphanOnly ==
  DeleteCompleted =>
    LET rows == {s \in stored_files : s.id = Last.sf}
        objs == {b \in blobs : b.object_path = Last.path}
    IN IF is_stored_file_orphan(Last.sf)
       THEN rows = {} /\ objs = {}
       ELSE rows # {} /\ objs # {}

\* C3: when the transaction of the new-content path fails after the blob was
\* written, the blob is deleted before the error propagates: after the failed
\* upload neither the blob nor the StoredFile or Document row exists.
C3_FailedUploadLeavesNothing ==
  (/\ AllIdle
   /\ Len(history) >= 1
   /\ Last.op = "upload" /\ Last.via = "new" /\ Last.put /\ ~Last.ok) =>
    /\ \A b \in blobs : b.object_path # Last.path
    /\ \A s \in stored_files : s.object_path # Last.path
    /\ \A d \in documents : d.id # Last.doc

\* C4: two concurrent upload_file calls with identical content never create two
\* blob objects: once both have finished the blob store holds exactly one
\* object for that content and stored_files exactly one row with that hash.
C4_ConcurrentUploadsOneBlob ==
  (/\ AllIdle
   /\ ncalls = 2
   /\ Len(history) = 2
   /\ history[1].op = "upload" /\ history[2].op = "upload"
   /\ history[1].hash = history[2].hash) =>
    /\ Cardinality({b \in blobs : b.content = history[1].hash}) = 1
    /\ Cardinality({s \in stored_files : s.content_hash = history[1].hash}) = 1

\* C5: an upload whose StoredFile insert violates the unique content_hash
\* constraint does not fail: it returns a Document that references the
\* StoredFile the winner created.
C5_RaceLoserLinksToWinner ==
  \A i \in 1..Len(history) :
    (history[i].op = "upload" /\ history[i].cause = "uq_stored_files_content_hash") =>
      /\ history[i].ok
      /\ \E d \in documents, s \in stored_files :
           /\ d.id = history[i].doc
           /\ d.stored_file_id = s.id
           /\ s.content_hash = history[i].hash

ReimportCompleted == last_line_call.op = "save_lines" /\ last_line_call.had_lines

\* C7 (as the code has it): save_lines on a document that already has a RawLine
\* leaves the line tables unchanged; with a non-empty list it fails with
\* DatabaseError, with the empty list it returns without an error.
C7_ReimportFailsUnlessEmpty ==
  ReimportCompleted =>
    /\ ~last_line_call.wrote
    /\ IF last_line_call.empty
       THEN last_line_call.ok
       ELSE ~last_line_call.ok /\ last_line_call.cause = "DatabaseError"

C7_Witness ==
  /\ ReimportCompleted
  /\ ~last_line_call.empty
  /\ ~last_line_call.ok
  /\ last_line_call.detail = "already has lines"

\* C7 (as stated): save_lines on a document that already has a RawLine fails
\* with an error for every input list and leaves the line tables unchanged.
C7_ReimportAlwaysFails ==
  ReimportCompleted => ~last_line_call.ok /\ ~last_line_call.wrote

\* C8: no two RawLine rows of one document have the same position.
C8_PositionsUniquePerDocument ==
  \A r1, r2 \in raw_lines :
    (r1.doc_id = r2.doc_id /\ r1.position = r2.position) => r1.id = r2.id

\* C9: each document has at most one AutotagTask whose status is enqueued or
\* processing.
C9_OneActiveTaskPerDocument ==
  \A d \in LineDocs : Cardinality(ActiveTasks(d)) <= 1

\* C10: no pending image job exists for which no image_jobs notification was
\* sent: every lines_image row in status pending has had its line notified.
C10_PendingImageWasNotified ==
  \A r \in lines_image : r.status = "pending" => r.line_id \in image_jobs

\* C11: when the raw line of an image job is written again as an image
\* placeholder (its block_type / content updated, the trigger running), a job
\* whose status was failed is pending afterwards, and a job whose status was
\* done, pending, enqueued or processing keeps its status.
C11_ReimportResetsFailedOnly ==
  (last_reimport.fired /\ last_reimport.before # "absent") =>
    last_reimport.after =
      (IF last_reimport.before = "failed" THEN "pending" ELSE last_reimport.before)

C11_Witness ==
  /\ last_reimport.fired
  /\ last_reimport.before = "failed"
  /\ last_reimport.after = "pending"

\* C12: get_lines_for_document_joined after save_lines returns exactly one entry
\* per RawLine of the document, in strictly increasing position order, with the
\* positions as imported and None for the detail kinds a line does not have.
C12_JoinedReturnsLinesInOrder ==
  (last_line_call.op = "save_lines" /\ last_line_call.ok /\ last_line_call.wrote) =>
    LET d == last_line_call.doc
        res == get_lines_for_document_joined(d)
    IN /\ ~res.is_none
       /\ Len(res.rows) = Cardinality(DocLines(d))
       /\ \A i \in 1..Len(res.rows) : \A j \in 1..Len(res.rows) :
            i < j => res.rows[i].position < res.rows[j].position
       /\ \A r \in DocLines(d) : \E i \in 1..Len(res.rows) : res.rows[i] = EnrichedRow(r)

\* C13: after save_lines into a generic document, an image line whose content
\* holds a markdown reference ![alt](name.ext) has an ImageLineDetail whose
\* image_hash is the file name without its extension, and an image line whose
\* content holds no reference is a RawLine without an ImageLineDetail.
C13_ImageHashIsFileNameStem ==
  \A r \in raw_lines :
    (DocTypeOf(r.doc_id) = "generic" /\ is_image_block(r)) =>
      /\ Len(r.content.img) >= 2 =>
           \E x \in lines_image :
             x.line_id = r.id /\ x.image_hash = StripExtension(r.content.img)
      /\ r.content.img = <<>> => \A x \in lines_image : x.line_id # r.id

\* C14: every RawLine has at most one detail row in total across
\* lines_document, lines_image and lines_audio, and none has both an image and
\* an audio detail.
C14_AtMostOneDetailPerLine ==
  \A r \in raw_lines :
    /\ Cardinality({x \in lines_document : x.line_id = r.id})
         + Cardinality({x \in lines_image : x.line_id = r.id})
         + Cardinality({x \in lines_audio : x.line_id = r.id}) <= 1
    /\ ~ /\ \E x \in lines_image : x.line_id = r.id
         /\ \E x \in lines_audio : x.line_id = r.id

\* C15: no ImageLineDetail belongs to an audio document and no AudioLineDetail
\* belongs to a generic or video document.
C15_DetailKindMatchesDocType ==
  /\ \A x \in lines_image : DocTypeOf(x.doc_id) # "audio"
  /\ \A x \in lines_audio : DocTypeOf(x.doc_id) = "audio"

\* C16: after copy_lines(source, target) into a target without lines, the
\* call has succeeded and the target holds one RawLine per source RawLine
\* with the same position, block_type and content under a new id, each with
\* the detail rows of its source line and the same field values.
C16_CopyDuplicatesLinesAndDetails ==
  (/\ last_line_call.op = "copy_lines"
   /\ ~last_line_call.had_lines
   /\ ~last_line_call.empty) =>
    LET tgt == last_line_call.doc
        DocOf(r) == {x.block_id : x \in {y \in lines_document : y.line_id = r.id}}
        ImgOf(r) == {<<x.filename, x.image_hash, x.status, x.attempts>> :
                       x \in {y \in lines_image : y.line_id = r.id}}
        AudioOf(r) == {x.line_id : x \in lines_audio} \cap {r.id}
        Copy(r, t) ==
          /\ t.id # r.id
          /\ t.position = r.position
          /\ t.block_type = r.block_type
          /\ t.content = r.content
          /\ DocOf(t) = DocOf(r)
          /\ ImgOf(t) = ImgOf(r)
          /\ (AudioOf(t) = {}) = (AudioOf(r) = {})
    IN \E src \in LineDocs \ {tgt} :
         /\ last_line_call.ok
         /\ Cardinality(DocLines(tgt)) = Cardinality(DocLines(src))
         /\ \A r \in DocLines(src) : \E t \in DocLines(tgt) : Copy(r, t)

\* C17: every step that changes the status of an image job takes one of the
\* edges pending->enqueued, enqueued->processing, pending->processing,
\* processing->done, processing->failed, failed->pending, failed->enqueued;
\* a job that is done keeps its status.
C17_StatusChangesFollowEdges ==
  [][\A x \in lines_image : \A y \in lines_image' :
       (x.line_id = y.line_id /\ x.status # y.status) =>
         <<x.status, y.status>> \in
           { <<"pending", "enqueued">>, <<"enqueued", "processing">>,
             <<"pending", "processing">>, <<"processing", "done">>,
             <<"processing", "failed">>, <<"failed", "pending">>,
             <<"failed", "enqueued">> }]_vars

\* C18: when delete_file finds the StoredFile orphaned and the removal of the
\* blob fails with a storage error, the StoredFile row is removed all the same
\* and the Document row stays deleted.
C18_BlobFailureStillRemovesRow ==
  (/\ AllIdle
   /\ Len(history) >= 1
   /\ Last.op = "delete" /\ Last.cause = "MinioError") =>
    /\ \A s \in stored_files : s.id # Last.sf
    /\ \A x \in documents : x.id # Last.doc

\* the tables of the file store and the bucket are as they were
FileStoreUnchanged == UNCHANGED <<stored_files, documents, blobs>>

\* C19: a delete_file call whose deletion of the Document row fails removes
\* nothing: neither its lookup nor the failed deletion changes a table or the
\* bucket, and the Document is there after the call.
C19_FailedDocDeleteRemovesNothing ==
  /\ [][\A p \in Procs :
          /\ (procs[p].pc = "idle" /\ procs'[p].pc = "del_doc") => FileStoreUnchanged
          /\ (procs[p].pc = "del_doc" /\ procs'[p].pc = "idle") => FileStoreUnchanged]_vars
  /\ [](/\ AllIdle
        /\ Len(history) >= 1
        /\ Last.op = "delete" /\ Last.cause = "OperationalError"
        => /\ \E x \in documents : x.id = Last.doc
           /\ \E s \in stored_files : s.id = Last.sf)

C19_Witness ==
  /\ AllIdle
  /\ Len(history) >= 1
  /\ Last.op = "delete" /\ Last.cause = "OperationalError"
  /\ \E x \in documents : x.id = Last.doc
  /\ \E b \in blobs : b.object_path = Last.path

\* a get_file or delete_file call that returned in the step that started it
ReturnedAtOnce == procs' = procs /\ history' # history

\* C20: get_file and delete_file with an id no Document has raise
\* DocumentNotFoundError and change nothing; once delete_file(d) has succeeded
\* list_doc does not contain d, and a get_file(d) that follows raises
\* DocumentNotFoundError.
C20_UnknownOrDeletedIsNotFound ==
  /\ [][/\ \A p \in Procs :
             (/\ procs[p].pc = "idle"
              /\ procs'[p].pc \in {"del_doc", "get_obj"}) => get_orm(procs'[p].doc) # {}
        /\ ReturnedAtOnce =>
             /\ history'[Len(history')].op \in {"get", "delete"}
             /\ history'[Len(history')].cause = "DocumentNotFoundError"
             /\ get_orm(history'[Len(history')].doc) = {}
             /\ FileStoreUnchanged]_vars
  /\ [](/\ (/\ AllIdle
            /\ Len(history) >= 1
            /\ Last.op = "delete" /\ Last.ok) => Last.doc \notin list_doc
        /\ (/\ Len(history) = 2
            /\ history[1].op = "delete" /\ history[1].ok
            /\ history[2].op = "get" /\ history[2].doc = history[1].doc)
             => history[2].cause = "DocumentNotFoundError")

C20_Witness ==
  /\ Len(history) = 2
  /\ history[1].op = "delete" /\ history[1].ok
  /\ history[2].op = "get" /\ history[2].doc = history[1].doc
  /\ history[2].cause = "DocumentNotFoundError"
  /\ history[1].doc \notin list_doc

\* C21: a save_lines call that fails while inserting the RawLine rows or one
\* of the detail batches leaves no RawLine and no detail row behind: the four
\* line tables are as they were before the failing transaction.
C21_FailedImportLeavesNothing ==
  (/\ last_line_call.op = "save_lines"
   /\ ~last_line_call.ok
   /\ last_line_call.detail = "SQLAlchemyError") =>
    ~last_line_call.wrote

C21_Witness ==
  /\ last_line_call.op = "save_lines"
  /\ ~last_line_call.ok
  /\ last_line_call.detail = "SQLAlchemyError"
  /\ ~last_line_call.wrote
  /\ DocLines(last_line_call.doc) = {}

\* C22: imports on one document are serialised: a save_lines call inserts its
\* lines only into a document that holds none at that moment, so of two
\* concurrent calls for one empty document only one inserts.
C22_ImportsOnOneDocumentSerialised ==
  [][\A p \in LProcs :
       (/\ lprocs[p].pc = "insert"
        /\ lprocs'[p].pc = "idle"
        /\ last_line_call'.ok) => DocLines(lprocs[p].doc) = {}]_vars

\* C23: save_lines with two input lines at one position fails with an error
\* and inserts nothing: such a list never reaches the INSERT, and the call
\* that carried it ends in DatabaseError with the line tables as they were.
C23_DuplicatePositionsRejected ==
  /\ \A p \in LProcs : lprocs[p].pc = "insert" => ~DuplicatePositions(lprocs[p].lines)
  /\ last_line_call.detail = "duplicate positions" =>
       /\ last_line_call.op = "save_lines"
       /\ ~last_line_call.ok
       /\ last_line_call.cause = "DatabaseError"
       /\ ~last_line_call.wrote

C23_Witness ==
  /\ last_line_call.op = "save_lines"
  /\ last_line_call.detail = "duplicate positions"
  /\ ~last_line_call.ok
  /\ ~last_line_call.wrote
  /\ DocLines(last_line_call.doc) = {}

\* C24: update_lines for a block_id that no line of the document carries
\* returns False, raises nothing and changes no RawLine and no detail row.
C24_UpdateWithoutMatchIsNoOp ==
  (/\ last_line_call.op = "update_lines"
   /\ q_ids(last_line_call.doc, last_line_call.block_id) = {}) =>
    /\ last_line_call.ok
    /\ last_line_call.cause = "none"
    /\ last_line_call.detail = "False"
    /\ ~last_line_call.wrote

C24_Witness ==
  /\ last_line_call.op = "update_lines"
  /\ DocLines(last_line_call.doc) # {}
  /\ q_ids(last_line_call.doc, last_line_call.block_id) = {}
  /\ last_line_call.ok
  /\ last_line_call.detail = "False"
  /\ ~last_line_call.wrote

\* C25: update_lines for a block_id that lines of the document carry returns
\* True, with the content of those lines rewritten and their ImageLineDetail
\* set to done.
C25_UpdateRewritesMatchedLines ==
  (/\ last_line_call.op = "update_lines"
   /\ q_ids(last_line_call.doc, last_line_call.block_id) # {}) =>
    /\ last_line_call.ok
    /\ \A x \in lines_image :
         x.line_id \in q_ids(last_line_call.doc, last_line_call.block_id) => x.status = "done"

\* C26: find_stalled_tasks(threshold) returns exactly the image jobs that are
\* enqueued or processing and whose updated_at is older than the threshold,
\* and the call changes no row: status, attempts and updated_at of every job
\* are as before.
C26_FindStalledReadsOnly ==
  [][last_stalled' # last_stalled =>
       /\ last_stalled'.result =
            {id \in LineIds :
               \E r \in lines_image :
                 /\ r.line_id = id
                 /\ r.status \in {"enqueued", "processing"}
                 /\ now - updated_at[id] > last_stalled'.threshold}
       /\ UNCHANGED <<lines_image, updated_at>>]_vars

C26_Witness ==
  /\ last_stalled.called
  /\ last_stalled.result # {}
  /\ \E r \in lines_image :
       /\ r.line_id \notin last_stalled.result
       /\ r.status \in {"enqueued", "processing"}
       /\ updated_at[r.line_id] = last_stalled.at - last_stalled.threshold

\* C27: the upsert run for an UPDATE of a raw line broadcasts an image_jobs
\* notification only when it inserts the ImageLineDetail or moves it from
\* failed to pending: a line whose job keeps its status is not notified.
C27_NotifiesOnlyWhenPending ==
  last_reimport.notified => last_reimport.before \in {"absent", "failed"}

\* C28: a save_lines call that succeeds stores every input line as a RawLine
\* and writes an AudioLineDetail for a line if and only if the document is an
\* audio document and the line's start_ts is not null.
C28_AudioDetailIffAudioDocAndStartTs ==
  [][\A p \in LProcs :
       (/\ lprocs[p].pc = "insert"
        /\ lprocs'[p].pc = "idle"
        /\ last_line_call'.ok) =>
         \A i \in 1..Len(lprocs[p].lines) :
           LET id == nextLineId + i - 1
               n == lprocs[p].lines[i]
           IN /\ \E r \in raw_lines' :
                   r.id = id /\ r.doc_id = lprocs[p].doc /\ r.position = n.position
              /\ (\E a \in lines_audio' : a.line_id = id)
                   <=> (DocTypeOf(lprocs[p].doc) = "audio" /\ n.start_ts # None)]_vars

C28_Witness ==
  /\ last_line_call.op = "save_lines"
  /\ last_line_call.ok
  /\ DocTypeOf(last_line_call.doc) = "audio"
  /\ \E r \in DocLines(last_line_call.doc) : \E a \in lines_audio : a.line_id = r.id
  /\ \E r \in DocLines(last_line_call.doc) :
       /\ r.block_type = "audio_sentence"
       /\ \A a \in lines_audio : a.line_id # r.id

\* C29: under any interleaving of upload_file and delete_file calls, once all
\* calls have finished every Document references an existing StoredFile row
\* and the object of every StoredFile row is in the bucket.
C29_NoDanglingFileAfterRaces ==
  AllIdle =>
    /\ \A x \in documents : \E s \in stored_files : s.id = x.stored_file_id
    /\ \A s \in stored_files : \E b \in blobs : b.object_path = s.object_path

\* C30: in a new-content upload the blob is in the bucket before the
\* StoredFile and Document rows are written: the step that writes the rows
\* finds the blob there and leaves it, and while an upload has not yet put its
\* blob no row of that upload exists.
C30_BlobWrittenBeforeRows ==
  /\ [][\A p \in Procs :
          (/\ procs[p].pc = "commit"
           /\ \/ \E s \in stored_files' \ stored_files : s.object_path = procs[p].path
              \/ \E x \in documents' \ documents : x.id = procs[p].doc) =>
            \E b \in blobs \cap blobs' : b.object_path = procs[p].path]_vars
  /\ [](\A p \in Procs :
          procs[p].pc \in {"put", "commit", "rollback"} =>
            /\ \A s \in stored_files : s.object_path # procs[p].path
            /\ \A x \in documents : x.id # procs[p].doc)

\* an upload stopped between its two steps: the blob is there, unreferenced
C30_Witness ==
  \E p \in Procs :
    /\ procs[p].pc = "commit"
    /\ \E b \in blobs : b.object_path = procs[p].path
    /\ \A s \in stored_files : s.object_path # procs[p].path
    /\ \A x \in documents : x.id # procs[p].doc

\* attempts of the image job of a line in the table img; 0 without a row
AttemptsIn(img, id) ==
  IF \E r \in img : r.line_id = id
  THEN (CHOOSE r \in img : r.line_id = id).attempts
  ELSE 0

\* the step is a claim_task call for the line id
ClaimStep(id) == Len(claims'[id]) = Len(claims[id]) + 1

\* C31: claim_task returns the row, now processing with attempts one higher,
\* if and only if the job was pending or enqueued; for a job that is
\* processing, done or failed, and for an id without a job, it returns nothing
\* and leaves the table as it was.
C31_ClaimOnlyPendingOrEnqueued ==
  [][\A id \in LineIds :
       ClaimStep(id) =>
         LET res == claims'[id][Len(claims'[id])]
         IN IF StatusIn(lines_image, id) \in {"pending", "enqueued"}
            THEN /\ res.got
                 /\ res.status = "processing"
                 /\ res.attempts = AttemptsIn(lines_image, id) + 1
                 /\ StatusIn(lines_image', id) = "processing"
                 /\ AttemptsIn(lines_image', id) = AttemptsIn(lines_image, id) + 1
                 /\ \A r \in lines_image : r.line_id # id => r \in lines_image'
            ELSE /\ ~res.got
                 /\ lines_image' = lines_image]_vars

C31_Witness ==
  \E id \in LineIds :
    /\ Len(claims[id]) >= 1
    /\ claims[id][Len(claims[id])].was = "enqueued"
    /\ claims[id][Len(claims[id])].got
    /\ StatusIn(lines_image, id) = "processing"
    /\ AttemptsIn(lines_image, id) = 1

\* the job of the line is unclaimed or in processing and was last written
\* longer ago than every threshold a reaper passes
Stuck(id) ==
  /\ StatusIn(lines_image, id) \in {"pending", "enqueued", "processing"}
  /\ \A th \in Thresholds : now - updated_at[id] > th

\* C32: with a reaper that keeps polling, an image job that is pending,
\* enqueued or processing for longer than the threshold is eventually
\* returned by find_stalled_tasks, unless it stops being stuck.
C32_StuckJobIsSurfaced ==
  \A id \in LineIds :
    Stuck(id) ~> (~Stuck(id) \/ id \in last_stalled.result)


\* C33: within one document no two rows of lines_image carry the same
\* image_hash; a line whose hash the document already has changes the row
\* that is there instead of adding a second one
C33_OneDetailPerHashInDocument ==
  \A r1, r2 \in lines_image :
    (r1.doc_id = r2.doc_id /\ r1.image_hash = r2.image_hash) => r1.line_id = r2.line_id


\* the tables whose rows carry a doc_id
ChildRows == raw_lines \cup lines_document \cup lines_image \cup lines_audio \cup autotag_tasks

\* C34: every raw line, detail row and autotag task references a Document
\* that exists: deleting a Document takes all of its children with it
C34_ChildrenReferenceExistingDocument ==
  \A r \in ChildRows : \E x \in documents : x.id = r.doc_id

\* a document whose lines and autotag task had been written has been deleted
C34_Witness ==
  /\ last_line_call.op = "save_lines" /\ last_line_call.wrote
  /\ last_autotag_call.created
  /\ last_autotag_call.doc = last_line_call.doc
  /\ get_orm(last_line_call.doc) = {}
  /\ \E x \in ChildRows : x.doc_id # last_line_call.doc


\* the last call was an upload_file that uq_documents_owner_userdoc rejected
KeyConflictUpload ==
  /\ AllIdle
  /\ Len(history) >= 1
  /\ Last.op = "upload" /\ ~Last.ok /\ Last.cause = "uq_documents_owner_userdoc"

\* C35: no two Documents share (owner_id, user_document_id), and an upload_file
\* that would break this fails and leaves no new Document, StoredFile or blob,
\* on the duplicate-content path and on the new-content path
C35_KeyUniqueAndConflictLeavesNothing ==
  /\ \A d1, d2 \in documents : d1.key = d2.key => d1.id = d2.id
  /\ KeyConflictUpload =>
       /\ \A d \in documents : d.id # Last.doc
       /\ \A st \in stored_files : st.content_hash = Last.hash => Last.via = "dup"
       /\ \A b \in blobs : b.object_path.doc # Last.doc


\* the status task id has in table T, "absent" when T has no such row
TaskStatus(T, id) ==
  IF \E t \in T : t.id = id THEN (CHOOSE t \in T : t.id = id).status ELSE "absent"

\* the tasks a step writes as enqueued: inserted with that status, or taken
\* to it from another status
BecomesEnqueued ==
  {id \in TaskIds : /\ TaskStatus(autotag_tasks', id) = "enqueued"
                    /\ TaskStatus(autotag_tasks, id) # "enqueued"}

LockStep(id) ==
  /\ last_autotag_call'.op = "lock_for_processing"
  /\ last_autotag_call'.arg = id
  /\ last_autotag_call' # last_autotag_call

TaskAttempts(T, id) ==
  IF \E t \in T : t.id = id THEN (CHOOSE t \in T : t.id = id).attempts ELSE 0

\* C37: lock_for_processing returns the task, with status processing and
\* attempts one higher, exactly when the task was enqueued or processing; for
\* a done, failed or unknown task it returns nothing and changes nothing
C37_LockOnlyEnqueuedOrProcessing ==
  [][\A id \in TaskIds : LockStep(id) =>
       LET res == last_autotag_call'
       IN IF TaskStatus(autotag_tasks, id) \in {"enqueued", "processing"}
          THEN /\ res.task = id
               /\ res.status = "processing"
               /\ res.attempts = TaskAttempts(autotag_tasks, id) + 1
               /\ TaskStatus(autotag_tasks', id) = "processing"
               /\ TaskAttempts(autotag_tasks', id) = TaskAttempts(autotag_tasks, id) + 1
               /\ {t \in autotag_tasks' : t.id # id} = {t \in autotag_tasks : t.id # id}
          ELSE /\ res.task = None
               /\ autotag_tasks' = autotag_tasks]_vars

\* a task that was already processing has been locked again and handed back
\* with its second attempt
C37_Witness ==
  /\ last_autotag_call.op = "lock_for_processing"
  /\ last_autotag_call.task # None
  /\ last_autotag_call.attempts = 2
  /\ TaskStatus(autotag_tasks, last_autotag_call.task) = "processing"


HasJob(img, id) == \E r \in img : r.line_id = id

\* the step is a create_task call that wrote the job of line id: no raw line
\* was inserted or updated, no claim was made, and the job is pending
CreateTaskStep(id) ==
  /\ lcalls' = lcalls + 1
  /\ nextLineId' = nextLineId /\ reimports' = reimports /\ raw_lines' = raw_lines
  /\ ~ClaimStep(id)
  /\ StatusIn(lines_image', id) = "pending"

\* C38: the attempts of an image job count the claim_task calls that took it
\* since it was created or since create_task reset it: a successful claim adds
\* one, a new row starts at 0, create_task sets 0, and no failed claim,
\* update_task_status, update_lines or trigger upsert (the one that takes a
\* failed job back to pending included) changes it
C38_AttemptsCountSuccessfulClaims ==
  [][\A id \in LineIds :
       LET a == AttemptsIn(lines_image, id)
           b == AttemptsIn(lines_image', id)
       IN /\ ClaimStep(id) =>
               b = a + (IF claims'[id][Len(claims'[id])].got THEN 1 ELSE 0)
          /\ (~ClaimStep(id) /\ HasJob(lines_image, id) /\ HasJob(lines_image', id)) =>
               \/ b = a
               \/ CreateTaskStep(id) /\ b = 0
          /\ (~HasJob(lines_image, id) /\ HasJob(lines_image', id)) => b = 0]_vars

\* a job that was claimed once and then failed has been taken back to pending
\* by the trigger, and still counts its one attempt
C38_Witness ==
  /\ last_reimport.line # None
  /\ last_reimport.before = "failed" /\ last_reimport.after = "pending"
  /\ StatusIn(lines_image, last_reimport.line) = "pending"
  /\ AttemptsIn(lines_image, last_reimport.line) = 1


\* the Document rows a step commits
Committed == {d.id : d \in documents'} \ {d.id : d \in documents}

\* how many times id was broadcast on docparser_new_doc
Broadcasts(id) == Cardinality({i \in 1..Len(docparser_new_doc) : docparser_new_doc[i] = id})

\* C39: each Document row upload_file commits, on either path, is broadcast
\* once on docparser_new_doc with its id; an upload whose transaction fails,
\* an update, a change of the sync flag and a delete broadcast nothing
C39_OneNotificationPerCommittedDocument ==
  [][/\ \A id \in Committed : docparser_new_doc' = Append(docparser_new_doc, id)
     /\ Committed = {} => docparser_new_doc' = docparser_new_doc]_vars
  /\ [](/\ \A d \in documents : Broadcasts(d.id) = 1
        /\ \A id \in DocIds : Broadcasts(id) <= 1)

\* an upload of new content and an upload of the same content have both
\* committed and been broadcast, and afterwards the sync flag of the first
\* document was switched off and the second document renamed
C39_Witness ==
  /\ TwoUploadsInSequence
  /\ docparser_new_doc = <<1, 2>>
  /\ \E d \in documents : d.id = 1 /\ ~d.is_sync_enabled
  /\ \E d \in documents : d.id = 2 /\ d.stored_file_id = 1 /\ d.name = "b.mp3"
  /\ \E d \in documents : d.id = 1 /\ d.name = "a.txt"

=============================================================================
